---- MODULE Spec2Model ----
(***************************************************************************)
(* IZSU data visualisation: the localStorage cache (src/src/cache.js) and  *)
(* the two versions of the API service module (src/src/api.js, with the    *)
(* CKAN fallback, and the snapshot-only one in the tail of                 *)
(* src/src/cache.js).                                                      *)
(*                                                                         *)
(* Time is Date.now() in milliseconds, counted from the start of the run.  *)
(* A localStorage key is the pair <<prefix, rest>> of the string the code  *)
(* builds, so that startsWith(CACHE_PREFIX) is a test on the first part.   *)
(* A stored string is modelled by what JSON.parse makes of it: a record    *)
(* with a kind.                                                            *)
(***************************************************************************)
EXTENDS Integers, Sequences, FiniteSets, TLC

VARIABLES
    now,              \* Date.now()
    ticks,            \* number of clock advances so far (bounded)
    localStorage,     \* window.localStorage: key -> stored value
    capacity,         \* how many items the browser lets this origin store
    settingsEffect,   \* per cache key: what the last saveSettings did to its validity
    last,             \* what the last Cache.get / Cache.set call saw and did
    ver,              \* the API module loaded: "ckan" (api.js) or "snapshot" (tail of cache.js)
    gistData,         \* API: the envelope held in memory
    gistFetchPromise, \* API: TRUE while the pending-request handle is non-null
    gistWaiters,      \* the callers awaiting gistFetchPromise, in the order they attached
    gistRequests,     \* number of envelope requests issued so far
    gistInFlight,     \* number of envelope requests the network has not answered yet
    inv,              \* the fetchAll invocations
    task,             \* per invocation: the getter calls it fanned out
    anyEvent,         \* a response has arrived or the clock has advanced
    storageDown,      \* every localStorage access throws (storage disabled or denied)
    backoff,          \* the getBackoffDelay calls made so far (the last two)
    retry,            \* the retry loop in progress: its attempt, requests and delays
    historyFile,      \* collector: data/history.json on disk
    collector,        \* collector: the run of collectData in progress or ended
    countdownInterval,\* Countdown: the id setInterval returned, 0 for null
    countdownData,    \* Countdown: the anchor, or null
    timers,           \* the interval timers the browser has active
    timerSeq,         \* the last timer id the browser handed out
    shown             \* what the countdown element displays

cacheVars == <<now, ticks, localStorage, capacity, settingsEffect, last>>

apiVars == <<ver, gistData, gistFetchPromise, gistWaiters, gistRequests, gistInFlight,
             inv, task, anyEvent>>

countdownVars == <<countdownInterval, countdownData, timers, timerSeq, shown>>

collectorVars == <<historyFile, collector>>

auxVars == <<storageDown, backoff, retry, historyFile, collector, countdownInterval, countdownData, timers, timerSeq,
             shown>>

vars == <<now, ticks, localStorage, capacity, settingsEffect, last,
          ver, gistData, gistFetchPromise, gistWaiters, gistRequests, gistInFlight,
          inv, task, anyEvent,
          storageDown, backoff, retry, historyFile, collector,
          countdownInterval, countdownData, timers, timerSeq, shown>>

-----------------------------------------------------------------------------
(* Bounds *)

MaxTicks == 4
SmallQuota == 2
MaxCalls == 2
MaxApiTicks == 1
AmpleQuota == 16
PageLoadMs == 1000
MaxStoreTicks == 1
MaxAttempt == 5
MaxRenders == 3
MaxCountdownTicks == 2
MaxDepletionTicks == 3
MaxReading == 60
MaxRecords == 2
MaxRequests == 2
MaxEnvelopeTicks == 2
MaxRuns == 3
MaxDams == 2

-----------------------------------------------------------------------------
(* Constants of cache.js *)

CACHE_PREFIX == "izsu_"
SETTINGS_KEY == <<"izsu_", "settings">>
DEFAULT_TTL_HOURS == 24

HourMs == 60 * 60 * 1000

\* The cacheDurationHours values the settings dialog is made to save.
HourChoices == {1, 2}

\* Clock advances: one millisecond (to step over a boundary) or one hour.
TickSteps == {1, HourMs}

\* The cache keys the Cache operations are exercised with.
CacheOpKeys == {"barajdurum", "gunluksuuretimi"}

\* ENDPOINTS of the two API modules (the values are the cache keys).
ENDPOINTS_snapshot ==
    {"arizakaynaklisukesintileri", "barajvekuyular", "barajdurum", "gunluksuuretimi",
     "suuretiminindagilimi", "haftaliksuanalizleri", "cevreilcesuanalizleri",
     "barajsukaliteraporlari"}

ENDPOINTS_ckan == ENDPOINTS_snapshot \cup {"tuketim", "sukayiplari", "tarifeler"}

ENDPOINTS(v) == IF v = "ckan" THEN ENDPOINTS_ckan ELSE ENDPOINTS_snapshot

\* `${ENDPOINTS.PRODUCTION_DISTRIBUTION}_${year}`: the cache key of
\* getProductionDistribution(year) for the year asked for.
YearKey == "suuretiminindagilimi_year"

KeyNames == ENDPOINTS_ckan \cup {"settings", YearKey}

LSKeys == {<<CACHE_PREFIX, n>> : n \in KeyNames}

NullV == "null"
Payloads == {"gist", "ckan"}

Absent == [kind |-> "absent"]

Entry(d, t) == [kind |-> "entry", data |-> d, timestamp |-> t]

SettingsValue(h) == [kind |-> "settings", cacheDurationHours |-> h,
                     theme |-> "dark", accentColor |-> "cyan"]

-----------------------------------------------------------------------------
(* Cache (src/src/cache.js) *)

\* Stored strings that are not what the cache wrote: text that JSON.parse
\* rejects, the text null, and JSON that has none of the fields read from it
\* (a number, a string, {} or []).
Garbage == [kind |-> "garbage"]

JsonNull == [kind |-> "jsonNull"]

JsonOther == [kind |-> "jsonOther"]

\* JavaScript values a field read or an arithmetic expression can produce.
Number(n) == [kind |-> "number", n |-> n]

UndefinedV == [kind |-> "undefined"]

NullT == [kind |-> "null"]

NaN == [kind |-> "NaN"]

TypeError == [kind |-> "TypeError"]

\* const { data, timestamp } = JSON.parse(stored), for a value that parsed
\* to something other than null.
timestampOf(stored) ==
    IF stored.kind = "entry" THEN Number(stored.timestamp) ELSE UndefinedV

dataOf(stored) == IF stored.kind = "entry" THEN stored.data ELSE "undefined"

\* Cache.getSettings: whatever JSON.parse returns for the stored string, the
\* defaults when nothing is stored or the string does not parse.
getSettings(ls) ==
    LET stored == ls[SETTINGS_KEY]
    IN  IF stored.kind \in {"absent", "garbage"}
        THEN SettingsValue(DEFAULT_TTL_HOURS)
        ELSE stored

\* Cache.getTTL: settings.cacheDurationHours * 60 * 60 * 1000. Reading the
\* property of null throws, a missing property makes the product NaN.
getTTL_default(ls) == Number(DEFAULT_TTL_HOURS * 60 * 60 * 1000)

getTTL(ls) ==
    LET settings == getSettings(ls)
    IN  IF settings.kind = "jsonNull" THEN TypeError
        ELSE IF settings.kind = "settings"
        THEN Number(settings.cacheDurationHours * 60 * 60 * 1000)
        ELSE NaN

getCacheKey(key) == <<CACHE_PREFIX, key>>

removeItem(ls, k) == [ls EXCEPT ![k] = Absent]

\* now - timestamp > ttl: false when a side is undefined or NaN.
expired(t, timestamp, ttl) ==
    timestamp.kind = "number" /\ ttl.kind = "number" /\ t - timestamp.n > ttl.n

\* Cache.get: the value returned and the storage it leaves. An exception
\* (JSON.parse, destructuring null, getTTL) is caught and answered null.
get_inclusive(ls, key, t) ==
    LET cacheKey == getCacheKey(key)
        stored == ls[cacheKey]
        ttl == getTTL(ls)
    IN  IF stored.kind = "absent"
        THEN [ret |-> NullV, ls |-> ls]
        ELSE IF stored.kind \in {"garbage", "jsonNull"} \/ ttl.kind = "TypeError"
        THEN [ret |-> NullV, ls |-> ls]
        ELSE IF timestampOf(stored).kind = "number" /\ ttl.kind = "number"
                /\ t - timestampOf(stored).n >= ttl.n
             THEN [ret |-> NullV, ls |-> removeItem(ls, cacheKey)]
             ELSE [ret |-> dataOf(stored), ls |-> ls]

get_refresh(ls, key, t) ==
    LET cacheKey == getCacheKey(key)
        stored == ls[cacheKey]
        ttl == getTTL(ls)
    IN  IF stored.kind = "absent"
        THEN [ret |-> NullV, ls |-> ls]
        ELSE IF stored.kind \in {"garbage", "jsonNull"} \/ ttl.kind = "TypeError"
        THEN [ret |-> NullV, ls |-> ls]
        ELSE IF expired(t, timestampOf(stored), ttl)
             THEN [ret |-> NullV, ls |-> removeItem(ls, cacheKey)]
             ELSE [ret |-> dataOf(stored),
                   ls |-> IF stored.kind = "entry"
                          THEN [ls EXCEPT ![cacheKey].timestamp = t]
                          ELSE ls]

get(ls, key, t) ==
    LET cacheKey == getCacheKey(key)
        stored == ls[cacheKey]
        ttl == getTTL(ls)
    IN  IF stored.kind = "absent"
        THEN [ret |-> NullV, ls |-> ls]
        ELSE IF stored.kind \in {"garbage", "jsonNull"} \/ ttl.kind = "TypeError"
        THEN [ret |-> NullV, ls |-> ls]
        ELSE IF expired(t, timestampOf(stored), ttl)
             THEN [ret |-> NullV, ls |-> removeItem(ls, cacheKey)]
             ELSE [ret |-> dataOf(stored), ls |-> ls]

\* Cache.has
has(ls, key, t) ==
    LET g == get(ls, key, t) IN [ret |-> g.ret # NullV, ls |-> g.ls]

\* Cache.remove
remove(ls, key) == removeItem(ls, getCacheKey(key))

\* Cache.getTimestamp: the timestamp field of what is stored, null when
\* nothing is stored or reading it throws.
getTimestamp(ls, key) ==
    LET stored == ls[getCacheKey(key)]
    IN  IF stored.kind \in {"absent", "garbage", "jsonNull"}
        THEN NullT
        ELSE timestampOf(stored)

\* Cache.getAge: the text "H saat M dk once" or "M dk once", by its numbers.
getAge(ls, key, t) ==
    LET stored == ls[getCacheKey(key)]
        ageMinutes == (t - stored.timestamp) \div 60000
        ageHours == ageMinutes \div 60
    IN  IF stored.kind \in {"absent", "garbage", "jsonNull"}
        THEN NullT
        ELSE IF stored.kind # "entry"
        THEN [kind |-> "text", hours |-> NaN, minutes |-> NaN]
        ELSE IF ageHours > 0
        THEN [kind |-> "text", hours |-> Number(ageHours), minutes |-> Number(ageMinutes % 60)]
        ELSE [kind |-> "text", hours |-> Number(0), minutes |-> Number(ageMinutes)]

startsWith(k, prefix) == k[1] = prefix

Min(S) == CHOOSE x \in S : \A y \in S : x <= y

Max(S) == CHOOSE x \in S : \A y \in S : x >= y

\* Cache.getStats: the counters of its loop over the items under the prefix
\* other than the settings (the lengths of the stored strings are left out),
\* and ttlHours read from getSettings() outside the try block.
getStats(ls, t) ==
    LET keys == {k \in DOMAIN ls : ls[k].kind # "absent" /\ startsWith(k, CACHE_PREFIX)
                                   /\ k # SETTINGS_KEY}
        stamps == {ls[k].timestamp : k \in {k2 \in keys : ls[k2].kind = "entry"}}
        entryCount == Cardinality(keys)
        settings == getSettings(ls)
    IN  IF settings.kind = "jsonNull"
        THEN [raised |-> TRUE, ret |-> NullT]
        ELSE [raised |-> FALSE,
              ret |-> [entryCount |-> entryCount,
                       oldestTimestamp |-> IF entryCount > 0
                                           THEN Number(Min(stamps \cup {t})) ELSE NullT,
                       newestTimestamp |-> IF entryCount > 0
                                           THEN Number(Max(stamps \cup {0})) ELSE NullT,
                       ttlHours |-> IF settings.kind = "settings"
                                    THEN Number(settings.cacheDurationHours)
                                    ELSE UndefinedV]]

\* Cache.clearAll
clearAll_firstOnly(ls) ==
    LET keys == {k \in DOMAIN ls : ls[k].kind # "absent" /\ startsWith(k, CACHE_PREFIX)}
    IN  IF keys = {} THEN ls
        ELSE removeItem(ls, CHOOSE k \in keys : TRUE)

clearAll(ls) ==
    [k \in DOMAIN ls |->
        IF ls[k].kind # "absent" /\ startsWith(k, CACHE_PREFIX) THEN Absent ELSE ls[k]]

\* Cache.clearOldEntries: of the items under the prefix other than the
\* settings, those whose timestamp is older than the TTL and those whose
\* text does not parse to something with fields are removed. When getTTL
\* throws nothing is removed.
clearOldEntries(ls, t) ==
    LET ttl == getTTL(ls)
    IN  IF ttl.kind = "TypeError" THEN ls
        ELSE [k \in DOMAIN ls |->
                IF ls[k].kind # "absent" /\ startsWith(k, CACHE_PREFIX) /\ k # SETTINGS_KEY
                   /\ (ls[k].kind \in {"garbage", "jsonNull"}
                       \/ expired(t, timestampOf(ls[k]), ttl))
                THEN Absent
                ELSE ls[k]]

\* localStorage.setItem throws QuotaExceededError when a new item does not fit.
itemCount(ls) == Cardinality({k \in DOMAIN ls : ls[k].kind # "absent"})

fits(ls, k, cap) == ls[k].kind # "absent" \/ itemCount(ls) < cap

\* Cache.saveSettings
saveSettings(ls, settings, cap) ==
    IF fits(ls, SETTINGS_KEY, cap)
    THEN [ls EXCEPT ![SETTINGS_KEY] = settings]
    ELSE ls

\* Cache.set: the storage it leaves, the number of setItem attempts, the
\* number of clearOldEntries passes and whether an exception left the call.
set_noRetry(ls, key, data, t, cap) ==
    LET cacheKey == getCacheKey(key)
        cacheEntry == Entry(data, t)
    IN  IF fits(ls, cacheKey, cap)
        THEN [ls |-> [ls EXCEPT ![cacheKey] = cacheEntry],
              writes |-> 1, evictions |-> 0, raised |-> FALSE]
        ELSE [ls |-> ls, writes |-> 1, evictions |-> 0, raised |-> TRUE]

set_evictTwice(ls, key, data, t, cap) ==
    LET cacheKey == getCacheKey(key)
        cacheEntry == Entry(data, t)
    IN  IF fits(ls, cacheKey, cap)
        THEN [ls |-> [ls EXCEPT ![cacheKey] = cacheEntry],
              writes |-> 1, evictions |-> 0, raised |-> FALSE]
        ELSE LET cleared == clearOldEntries(ls, t)
             IN  IF fits(cleared, cacheKey, cap)
                 THEN [ls |-> [cleared EXCEPT ![cacheKey] = cacheEntry],
                       writes |-> 2, evictions |-> 1, raised |-> FALSE]
                 ELSE [ls |-> clearAll(cleared), writes |-> 3, evictions |-> 2,
                       raised |-> FALSE]

set(ls, key, data, t, cap) ==
    LET cacheKey == getCacheKey(key)
        cacheEntry == Entry(data, t)
    IN  IF fits(ls, cacheKey, cap)
        THEN [ls |-> [ls EXCEPT ![cacheKey] = cacheEntry],
              writes |-> 1, evictions |-> 0, raised |-> FALSE]
        ELSE LET cleared == clearOldEntries(ls, t)
             IN  IF fits(cleared, cacheKey, cap)
                 THEN [ls |-> [cleared EXCEPT ![cacheKey] = cacheEntry],
                       writes |-> 2, evictions |-> 1, raised |-> FALSE]
                 ELSE [ls |-> cleared, writes |-> 2, evictions |-> 1,
                       raised |-> FALSE]

-----------------------------------------------------------------------------
(* What a call observed: the stored entry and the settings as they were    *)
(* when the call was made.                                                 *)

NoCall == [op |-> "none", key |-> "", ret |-> NullV, had |-> FALSE, data |-> NullV,
           ts |-> 0, at |-> 0, hours |-> 0, effect |-> "none", full |-> FALSE,
           writes |-> 0, evictions |-> 0, raised |-> FALSE]

\* cacheDurationHours of the settings stored right now (24 when none are).
HoursInForce(ls) ==
    IF ls[SETTINGS_KEY].kind = "settings"
    THEN ls[SETTINGS_KEY].cacheDurationHours
    ELSE 24

\* The validity rule of the data model: now - storedAt <= ttlMs.
EntryValid(ls, key, t, hours) ==
    /\ ls[getCacheKey(key)].kind = "entry"
    /\ t - ls[getCacheKey(key)].timestamp <= hours * 3600000

NoEffect == [k \in CacheOpKeys |-> "none"]

\* What a change of the settings from ls to ls2 does to each stored entry.
EffectOf(ls, ls2, t) ==
    [k \in CacheOpKeys |->
        LET was == EntryValid(ls, k, t, HoursInForce(ls))
            is == EntryValid(ls2, k, t, HoursInForce(ls2))
        IN  IF ls[getCacheKey(k)].kind # "entry" THEN "none"
            ELSE IF was /\ ~is THEN "invalidated"
            ELSE IF ~was /\ is THEN "revalidated"
            ELSE settingsEffect[k]]

-----------------------------------------------------------------------------
(* API: state of the module and of the calls in progress                   *)

\* The getters fetchAll fans out, in the order of its Promise.allSettled list.
FanOut ==
    <<"arizakaynaklisukesintileri", "barajvekuyular", "barajdurum", "gunluksuuretimi",
      "suuretiminindagilimi", "haftaliksuanalizleri", "cevreilcesuanalizleri",
      "barajsukaliteraporlari">>

FanOutSet == {FanOut[k] : k \in 1..Len(FanOut)}

\* A getter call: one per fanned-out endpoint, plus the getDamStatus call
\* that getDamsAndWells of api.js makes as its fallback ("nested"), plus
\* getProductionDistribution(year) with a year ("byYear").
TaskIds == FanOutSet \cup {"nested", "byYear"}

EndpointOf(tid) ==
    IF tid = "nested" THEN "barajdurum"
    ELSE IF tid = "byYear" THEN "suuretiminindagilimi"
    ELSE tid

\* The cache key a getter call passes to fetchWithCache.
CacheKeyOf(tid) == IF tid = "byYear" THEN YearKey ELSE EndpointOf(tid)

FRESH_MS == 300000

\* What the envelope holds for an endpoint: a payload, nothing, {error}, or
\* an empty body ([] or {}).
EntryKinds == {"payload", "absent", "error", "empty"}

AllPayload == [e \in FanOutSet |-> "payload"]

NonePresent == [e \in FanOutSet |-> "absent"]

\* The envelopes the feed is made to serve.
FeedFamily ==
    {AllPayload, NonePresent}
    \cup {[AllPayload EXCEPT ![e] = "absent"] : e \in FanOutSet}
    \cup {[AllPayload EXCEPT ![e] = "error"] : e \in {"arizakaynaklisukesintileri", "gunluksuuretimi"}}
    \cup {[AllPayload EXCEPT !["barajdurum"] = "absent", !["barajvekuyular"] = "absent"]}

\* The outcome of an envelope request as fetchFromGist resolves it: the
\* parsed envelope, or null after a non-2xx status, a network or a parse error.
NullEnvelope == [ok |-> FALSE, content |-> NonePresent]

Envelope(c) == [ok |-> TRUE, content |-> c]

NoGistData == [held |-> FALSE, fetchedAt |-> 0, content |-> NonePresent]

IdleTask == [pc |-> "idle", val |-> NullV, net |-> 0, wrote |-> 0,
             expectHit |-> FALSE, cachedVal |-> NullV,
             gistSaw |-> "none", ckanSaw |-> "none"]

NoResult == << >>

\* A fetchAll invocation: allCached records that it was called without
\* forceRefresh while every endpoint had a valid cache entry, issued the
\* envelope requests its own prefetch sent.
IdleInv == [status |-> "idle", force |-> FALSE, result |-> NoResult,
            allCached |-> FALSE, issued |-> 0]

Calls == 1..MaxCalls

ApiIdle ==
    /\ gistData = NoGistData
    /\ gistFetchPromise = FALSE
    /\ gistWaiters = << >>
    /\ gistRequests = 0
    /\ gistInFlight = 0
    /\ inv = [i \in Calls |-> IdleInv]
    /\ task = [i \in Calls |-> [tid \in TaskIds |-> IdleTask]]
    /\ anyEvent = FALSE

\* No retry loop has been started.
RetryIdle == [fn |-> "none", phase |-> "idle", attempt |-> 0, requests |-> 0,
              sleeps |-> << >>, outcomes |-> << >>]

\* data/history.json does not exist (fs.existsSync is false).
NoFile == [exists |-> FALSE, entries |-> << >>, lastUpdated |-> 0]

\* collectData has not been run.
NoRun == [phase |-> "idle", today |-> 0, stamp |-> 0, runs |-> 0, exitCode |-> 0,
          fetched |-> 0, atStart |-> NoFile]

CollectorIdle ==
    /\ historyFile = NoFile
    /\ collector = NoRun

\* The parts of the page that a run of the cache or of the API leaves alone.
\* countdownData: null, or the anchor render captured.
NoData == [set |-> FALSE, startTime |-> 0, startWater |-> 0, consumptionPerSecond |-> 0]

\* The countdown element before render has filled it in.
Blank == [kind |-> "blank"]

CountdownIdle ==
    /\ countdownInterval = 0
    /\ countdownData = NoData
    /\ timers = {}
    /\ timerSeq = 0
    /\ shown = Blank

AuxIdle ==
    /\ storageDown = FALSE
    /\ backoff = << >>
    /\ retry = RetryIdle
    /\ CollectorIdle
    /\ CountdownIdle

\* A function of its arguments alone is applied: the page at rest.
PureInit ==
    /\ ApiIdle
    /\ ver = "ckan"
    /\ now = PageLoadMs
    /\ ticks = 0
    /\ localStorage = [k \in LSKeys |-> Absent]
    /\ capacity = AmpleQuota
    /\ settingsEffect = NoEffect
    /\ AuxIdle

PureFrame ==
    UNCHANGED <<now, ticks, localStorage, capacity, settingsEffect, apiVars, auxVars>>

\* The module state the operators below thread through a run of callbacks.
State == [ls |-> localStorage, gd |-> gistData, promise |-> gistFetchPromise,
          waiters |-> gistWaiters, greq |-> gistRequests, flying |-> gistInFlight,
          inv |-> inv, task |-> task]

-----------------------------------------------------------------------------
(* API: the code of the two modules. A macrotask (a call from the page, a  *)
(* response arriving) runs with every promise continuation it makes ready, *)
(* so one operator application below is one run to the next suspension.    *)

\* fetchFromGist, up to its first suspension: the fresh envelope held in
\* memory, or the caller attached to the pending request, or a new request.
fetchFromGist_noWindow(S, i, tid) ==
    IF S.promise
    THEN [S |-> [S EXCEPT !.waiters = Append(@, <<i, tid>>)],
          ready |-> FALSE, env |-> NullEnvelope]
    ELSE [S |-> [S EXCEPT !.promise = TRUE,
                          !.greq = @ + 1,
                          !.flying = @ + 1,
                          !.waiters = Append(@, <<i, tid>>),
                          !.task = IF tid \in TaskIds
                                   THEN [@ EXCEPT ![i][tid].net = @ + 1]
                                   ELSE @],
          ready |-> FALSE, env |-> NullEnvelope]

fetchFromGist_noDedup(S, i, tid) ==
    IF S.gd.held /\ S.gd.fetchedAt # 0 /\ now - S.gd.fetchedAt < FRESH_MS
    THEN [S |-> S, ready |-> TRUE, env |-> Envelope(S.gd.content)]
    ELSE [S |-> [S EXCEPT !.promise = TRUE,
                          !.greq = @ + 1,
                          !.flying = @ + 1,
                          !.waiters = Append(@, <<i, tid>>),
                          !.task = IF tid \in TaskIds
                                   THEN [@ EXCEPT ![i][tid].net = @ + 1]
                                   ELSE @],
          ready |-> FALSE, env |-> NullEnvelope]

fetchFromGist(S, i, tid) ==
    IF S.gd.held /\ S.gd.fetchedAt # 0 /\ now - S.gd.fetchedAt < FRESH_MS
    THEN [S |-> S, ready |-> TRUE, env |-> Envelope(S.gd.content)]
    ELSE IF S.promise
    THEN [S |-> [S EXCEPT !.waiters = Append(@, <<i, tid>>)],
          ready |-> FALSE, env |-> NullEnvelope]
    ELSE [S |-> [S EXCEPT !.promise = TRUE,
                          !.greq = @ + 1,
                          !.flying = @ + 1,
                          !.waiters = Append(@, <<i, tid>>),
                          !.task = IF tid \in TaskIds
                                   THEN [@ EXCEPT ![i][tid].net = @ + 1]
                                   ELSE @],
          ready |-> FALSE, env |-> NullEnvelope]

\* getFromGist: the endpoint's entry of the envelope if there is one and it
\* carries no error, else null. An empty array or object is an entry
\* (data.endpoints[endpoint] is truthy) without an error field.
getFromGist(env, endpoint) ==
    IF env.ok /\ env.content[endpoint] = "payload" THEN "gist"
    ELSE IF env.ok /\ env.content[endpoint] = "empty" THEN "gistEmpty"
    ELSE NullV

\* fetchWithCache: the cache is consulted unless forceRefresh.
useCache_never(forceRefresh) == FALSE

useCache(forceRefresh) == ~forceRefresh

\* fetchWithCache: whether the fetched value is written to the cache. api.js
\* writes whatever fetchFn returned; the snapshot-only module tests if (data).
shouldStore(v, data) == IF v = "ckan" THEN TRUE ELSE data # NullV

\* Getters of api.js that fall back to the CKAN datastore.
CkanBacked == {"barajdurum", "gunluksuuretimi", "suuretiminindagilimi"}

\* What a getter of api.js returns when the envelope has nothing for it and
\* it has no other source.
emptySentinel(endpoint) ==
    IF endpoint = "arizakaynaklisukesintileri" THEN "emptyArr" ELSE "emptyWrap"

\* What a getter of the snapshot-only module returns in that case:
\* getFromGist(...) || [], || null, || { Pinotlar: [] }.
orDefault(endpoint) ==
    IF endpoint \in {"arizakaynaklisukesintileri", "barajvekuyular", "barajdurum",
                     "suuretiminindagilimi"}
    THEN "emptyArr"
    ELSE IF endpoint = "gunluksuuretimi" THEN NullV
    ELSE "emptyWrap"

RECURSIVE Finish(_, _, _, _)
RECURSIVE RunGetter(_, _, _, _)

\* The promise of a getter call is fulfilled. The nested getDamStatus call
\* resumes getDamsAndWells, which maps the dam status to its own shape.
Resolve(S, i, tid, value) ==
    LET S1 == [S EXCEPT !.task[i][tid].pc = "fulfilled", !.task[i][tid].val = value]
    IN  IF tid = "nested" THEN Finish(S1, i, "barajvekuyular", "derived") ELSE S1

\* fetchWithCache after fetchFn has returned data: Cache.set, return data.
Finish(S, i, tid, data) ==
    IF shouldStore(ver, data)
    THEN LET w == set(S.ls, CacheKeyOf(tid), data, now, capacity)
         IN  Resolve([S EXCEPT !.ls = w.ls, !.task[i][tid].wrote = @ + 1], i, tid, data)
    ELSE Resolve(S, i, tid, data)

\* fetchFn threw: the getter's promise is rejected, and so is that of
\* getDamsAndWells when the call was its nested getDamStatus.
Reject(S, i, tid) ==
    LET S1 == [S EXCEPT !.task[i][tid].pc = "rejected"]
    IN  IF tid = "nested"
        THEN [S1 EXCEPT !.task[i]["barajvekuyular"].pc = "rejected"]
        ELSE S1

AfterGist_ckanAnyway(S, i, tid, env) ==
    LET endpoint == EndpointOf(tid)
        gistData_ == getFromGist(env, endpoint)
        saw == IF ~env.ok THEN "failed"
               ELSE IF env.content[endpoint] = "payload" THEN "payload" ELSE "unusable"
        S1 == [S EXCEPT !.task[i][tid].gistSaw = saw]
    IN  IF gistData_ # NullV /\ ~(ver = "ckan" /\ endpoint \in CkanBacked)
        THEN Finish(S1, i, tid, gistData_)
        ELSE IF ver = "snapshot"
        THEN Finish(S1, i, tid, orDefault(endpoint))
        ELSE IF endpoint \in CkanBacked
        THEN [S1 EXCEPT !.task[i][tid].pc = "waitCkan", !.task[i][tid].net = @ + 1]
        ELSE IF endpoint = "barajvekuyular"
        THEN RunGetter([S1 EXCEPT !.task[i][tid].pc = "waitNested"], i, "nested",
                       S1.inv[i].force)
        ELSE Finish(S1, i, tid, emptySentinel(endpoint))

\* A getter's fetchFn from the point where fetchFromGist has resolved to env.
AfterGist(S, i, tid, env) ==
    LET endpoint == EndpointOf(tid)
        gistData_ == getFromGist(env, endpoint)
        saw == IF ~env.ok THEN "failed"
               ELSE IF env.content[endpoint] = "payload" THEN "payload" ELSE "unusable"
        S1 == [S EXCEPT !.task[i][tid].gistSaw = saw]
    IN  IF gistData_ # NullV
        THEN Finish(S1, i, tid, gistData_)
        ELSE IF ver = "snapshot"
        THEN Finish(S1, i, tid, orDefault(endpoint))
        ELSE IF endpoint \in CkanBacked
        THEN [S1 EXCEPT !.task[i][tid].pc = "waitCkan", !.task[i][tid].net = @ + 1]
        ELSE IF endpoint = "barajvekuyular"
        THEN RunGetter([S1 EXCEPT !.task[i][tid].pc = "waitNested"], i, "nested",
                       S1.inv[i].force)
        ELSE Finish(S1, i, tid, emptySentinel(endpoint))

\* A getter call (getOutages ... getDamQuality) up to its first suspension.
RunGetter(S, i, tid, forceRefresh) ==
    LET key == CacheKeyOf(tid)
        stored == S.ls[getCacheKey(key)]
        valid == stored.kind = "entry"
                 /\ now - stored.timestamp <= HoursInForce(S.ls) * 3600000
        S0 == [S EXCEPT !.task[i][tid].expectHit = (~forceRefresh /\ valid),
                        !.task[i][tid].cachedVal = IF valid THEN stored.data ELSE NullV]
        cached == get(S0.ls, key, now)
        S1 == IF useCache(forceRefresh) THEN [S0 EXCEPT !.ls = cached.ls] ELSE S0
    IN  IF useCache(forceRefresh) /\ cached.ret # NullV
        THEN Resolve(S1, i, tid, cached.ret)
        ELSE IF ver = "ckan" /\ tid = "byYear"
        THEN [S1 EXCEPT !.task[i][tid].pc = "waitCkan", !.task[i][tid].net = @ + 1]
        ELSE LET f == fetchFromGist(S1, i, tid)
             IN  IF f.ready
                 THEN AfterGist(f.S, i, tid, f.env)
                 ELSE [f.S EXCEPT !.task[i][tid].pc = "waitGist"]

\* The argument list of Promise.allSettled in fetchAll: the getters are
\* called in order, each running to its first suspension.
RECURSIVE RunAll(_, _, _)
RunAll(S, i, k) ==
    IF k > Len(FanOut) THEN S
    ELSE LET S1 == RunGetter(S, i, FanOut[k], S.inv[i].force)
         IN  IF S1.greq >= 0 THEN RunAll(S1, i, k + 1) ELSE S1

\* fetchAll up to its first suspension. The snapshot-only module awaits
\* fetchFromGist() before it calls the getters.
fetchAll(S, i) ==
    LET S0 == [S EXCEPT !.inv[i].allCached =
                            /\ ~S.inv[i].force
                            /\ \A e \in FanOutSet :
                                  EntryValid(S.ls, e, now, HoursInForce(S.ls))]
    IN  IF ver = "ckan"
        THEN RunAll([S0 EXCEPT !.inv[i].status = "running"], i, 1)
        ELSE LET f == fetchFromGist(S0, i, "prefetch")
                 S1 == [f.S EXCEPT !.inv[i].issued = f.S.greq - S0.greq]
             IN  IF f.ready
                 THEN RunAll([S1 EXCEPT !.inv[i].status = "running"], i, 1)
                 ELSE [S1 EXCEPT !.inv[i].status = "prefetch"]

\* A caller that awaited gistFetchPromise resumes with its outcome.
Resume(S, w, env) ==
    IF w[2] = "prefetch"
    THEN RunAll([S EXCEPT !.inv[w[1]].status = "running"], w[1], 1)
    ELSE AfterGist(S, w[1], w[2], env)

RECURSIVE ResumeAll(_, _, _, _)
ResumeAll(S, ws, k, env) ==
    IF k > Len(ws) THEN S
    ELSE LET S1 == Resume(S, ws[k], env)
         IN  IF S1.greq >= 0 THEN ResumeAll(S1, ws, k + 1, env) ELSE S1

\* Promise.allSettled over the getter promises of one fetchAll.
allSettled_failFast(ts) ==
    IF \E e \in FanOutSet : ts[e].pc = "rejected" THEN "rejected"
    ELSE IF \A e \in FanOutSet : ts[e].pc = "fulfilled" THEN "resolved"
    ELSE "pending"

allSettled_first(ts) ==
    IF \E e \in FanOutSet : ts[e].pc \in {"fulfilled", "rejected"}
    THEN "resolved" ELSE "pending"

allSettled(ts) ==
    IF \A e \in FanOutSet : ts[e].pc \in {"fulfilled", "rejected"}
    THEN "resolved" ELSE "pending"

\* The fallback fetchAll passes to extract for each slot.
Fallback(endpoint) ==
    IF endpoint \in {"arizakaynaklisukesintileri", "barajvekuyular", "barajdurum",
                     "suuretiminindagilimi"}
    THEN "emptyArr"
    ELSE NullV

ErrorText == "message"

\* extract of fetchAll (the snapshot-only one also rejects a null value).
extract_noFallback(v, t, fallback) ==
    IF t.pc = "fulfilled" /\ (v = "ckan" \/ t.val # NullV)
    THEN [data |-> t.val, error |-> NullV]
    ELSE [data |-> "undefined", error |-> ErrorText]

extract_swallow(v, t, fallback) ==
    IF t.pc = "fulfilled" /\ (v = "ckan" \/ t.val # NullV)
    THEN [data |-> t.val, error |-> NullV]
    ELSE [data |-> fallback, error |-> NullV]

extract(v, t, fallback) ==
    IF t.pc = "fulfilled" /\ (v = "ckan" \/ t.val # NullV)
    THEN [data |-> t.val, error |-> NullV]
    ELSE [data |-> fallback, error |-> ErrorText]

\* The object fetchAll returns, one slot per fanned-out getter.
aggregate(ts) == [e \in FanOutSet |-> extract(ver, ts[e], Fallback(e))]

\* fetchAll resumes once Promise.allSettled has resolved.
Complete(S) ==
    [S EXCEPT !.inv = [i \in Calls |->
        IF S.inv[i].status # "running" THEN S.inv[i]
        ELSE LET c == allSettled(S.task[i])
             IN  IF c = "resolved"
                 THEN [S.inv[i] EXCEPT !.status = "returned", !.result = aggregate(S.task[i])]
                 ELSE IF c = "rejected"
                 THEN [S.inv[i] EXCEPT !.status = "rejected"]
                 ELSE S.inv[i]]]

-----------------------------------------------------------------------------
(* The cache on its own: any sequence of Cache calls and clock advances.   *)

CacheInit ==
    /\ ApiIdle
    /\ ver = "ckan"
    /\ now = PageLoadMs
    /\ ticks = 0
    /\ localStorage = [k \in LSKeys |-> Absent]
    /\ capacity \in {SmallQuota - 1, SmallQuota, SmallQuota + 1}
    /\ settingsEffect = NoEffect
    /\ last = NoCall
    /\ AuxIdle

Tick ==
    /\ ticks < MaxTicks
    /\ \E d \in TickSteps : now' = now + d
    /\ ticks' = ticks + 1
    /\ UNCHANGED <<localStorage, capacity, settingsEffect, last, apiVars, auxVars>>

Get ==
    \E key \in CacheOpKeys :
        LET g == get(localStorage, key, now)
            stored == localStorage[getCacheKey(key)]
        IN  /\ localStorage' = g.ls
            /\ last' = [NoCall EXCEPT !.op = "get", !.key = key, !.ret = g.ret,
                            !.had = (stored.kind = "entry"),
                            !.data = IF stored.kind = "entry" THEN stored.data ELSE NullV,
                            !.ts = IF stored.kind = "entry" THEN stored.timestamp ELSE 0,
                            !.at = now,
                            !.hours = HoursInForce(localStorage),
                            !.effect = settingsEffect[key]]
            /\ settingsEffect' = [settingsEffect EXCEPT ![key] = "none"]
            /\ UNCHANGED <<now, ticks, capacity, apiVars, auxVars>>

Has ==
    \E key \in CacheOpKeys :
        /\ localStorage' = has(localStorage, key, now).ls
        /\ last' = NoCall
        /\ settingsEffect' = [settingsEffect EXCEPT ![key] = "none"]
        /\ UNCHANGED <<now, ticks, capacity, apiVars, auxVars>>

Set ==
    \E key \in CacheOpKeys, data \in Payloads :
        LET s == set(localStorage, key, data, now, capacity)
        IN  /\ localStorage' = s.ls
            /\ last' = [NoCall EXCEPT !.op = "set", !.key = key, !.at = now,
                            !.full = ~fits(localStorage, getCacheKey(key), capacity),
                            !.writes = s.writes, !.evictions = s.evictions,
                            !.raised = s.raised]
            /\ settingsEffect' = [k \in CacheOpKeys |->
                                    IF s.ls[getCacheKey(k)] = localStorage[getCacheKey(k)]
                                    THEN settingsEffect[k] ELSE "none"]
            /\ UNCHANGED <<now, ticks, capacity, apiVars, auxVars>>

Remove ==
    \E key \in CacheOpKeys :
        /\ localStorage' = remove(localStorage, key)
        /\ last' = NoCall
        /\ settingsEffect' = [settingsEffect EXCEPT ![key] = "none"]
        /\ UNCHANGED <<now, ticks, capacity, apiVars, auxVars>>

ClearAll ==
    /\ localStorage' = clearAll(localStorage)
    /\ last' = NoCall
    /\ settingsEffect' = NoEffect
    /\ UNCHANGED <<now, ticks, capacity, apiVars, auxVars>>

ClearOldEntries ==
    /\ localStorage' = clearOldEntries(localStorage, now)
    /\ last' = NoCall
    /\ settingsEffect' = [k \in CacheOpKeys |->
                            IF localStorage'[getCacheKey(k)].kind = "entry"
                            THEN settingsEffect[k] ELSE "none"]
    /\ UNCHANGED <<now, ticks, capacity, apiVars, auxVars>>

SaveSettings ==
    \E h \in HourChoices :
        /\ localStorage' = saveSettings(localStorage, SettingsValue(h), capacity)
        /\ last' = NoCall
        /\ settingsEffect' = EffectOf(localStorage, localStorage', now)
        /\ UNCHANGED <<now, ticks, capacity, apiVars, auxVars>>

CacheNext ==
    \/ Tick
    \/ Get
    \/ Has
    \/ Set
    \/ Remove
    \/ ClearAll
    \/ ClearOldEntries
    \/ SaveSettings

SpecCache == CacheInit /\ [][CacheNext]_vars

-----------------------------------------------------------------------------
(* The Data Service: fetchAll invocations against the feed and the CKAN    *)
(* datastore, over a cache left by earlier page loads.                     *)

\* An entry written by an earlier page load, still valid / already expired.
OldValid == Entry("cached", PageLoadMs - 1)

OldExpired == Entry("cached", PageLoadMs - DEFAULT_TTL_HOURS * HourMs - 1)

EmptyStorage == [k \in LSKeys |-> Absent]

StorageWith(keys, entry) ==
    [k \in LSKeys |-> IF k[2] \in keys THEN entry ELSE Absent]

InitialStorages ==
    {EmptyStorage,
     StorageWith(FanOutSet, OldValid),
     StorageWith(FanOutSet, OldExpired),
     StorageWith({"barajdurum"}, OldValid)}

ApiInit ==
    /\ ApiIdle
    /\ ver \in {"ckan", "snapshot"}
    /\ now = PageLoadMs
    /\ ticks = 0
    /\ localStorage \in InitialStorages
    /\ capacity = AmpleQuota
    /\ settingsEffect = NoEffect
    /\ last = NoCall
    /\ AuxIdle

Install(S) ==
    /\ localStorage' = S.ls
    /\ gistData' = S.gd
    /\ gistFetchPromise' = S.promise
    /\ gistWaiters' = S.waiters
    /\ gistRequests' = S.greq
    /\ gistInFlight' = S.flying
    /\ inv' = S.inv
    /\ task' = S.task

\* The page calls API.fetchAll(forceRefresh): invocation i.
StartFetchAll(i, forceRefresh) ==
    /\ inv[i].status = "idle"
    /\ Install(Complete(fetchAll([State EXCEPT !.inv[i].force = forceRefresh], i)))
    /\ UNCHANGED <<now, ticks, capacity, settingsEffect, last, ver, anyEvent, auxVars>>

\* One call of fetchAll.
CallFetchAll == \E forceRefresh \in BOOLEAN : StartFetchAll(1, forceRefresh)

\* Several calls of fetchAll made together, before any response arrives.
CallTogether ==
    \E i \in Calls, forceRefresh \in BOOLEAN :
        /\ ~anyEvent
        /\ IF i = 1 THEN TRUE ELSE inv[i - 1].status # "idle"
        /\ StartFetchAll(i, forceRefresh)

\* The envelope request fails (non-2xx status, network error, unparseable
\* body): the inner function returns null and clears the handle.
GistFail ==
    /\ gistInFlight > 0
    /\ Install(Complete(ResumeAll([State EXCEPT !.promise = FALSE, !.waiters = << >>,
                                                !.flying = @ - 1],
                                  gistWaiters, 1, NullEnvelope)))
    /\ anyEvent' = TRUE
    /\ UNCHANGED <<now, ticks, capacity, settingsEffect, last, ver, auxVars>>

\* The envelope arrives: it is stamped, kept in gistData, the handle cleared.
Arrive(c) ==
    /\ gistInFlight > 0
    /\ Install(Complete(ResumeAll(
            [State EXCEPT !.promise = FALSE, !.waiters = << >>, !.flying = @ - 1,
                          !.gd = [held |-> TRUE, fetchedAt |-> now, content |-> c]],
            gistWaiters, 1, Envelope(c))))
    /\ anyEvent' = TRUE
    /\ UNCHANGED <<now, ticks, capacity, settingsEffect, last, ver, auxVars>>

GistArrive == \E c \in FeedFamily : Arrive(c)

\* fetchFromCKAN returns the records (which the getter transforms).
CkanRecords ==
    \E i \in Calls, tid \in TaskIds :
        /\ task[i][tid].pc = "waitCkan"
        /\ Install(Complete(Finish([State EXCEPT !.task[i][tid].ckanSaw = "ok"],
                                   i, tid, "ckan")))
        /\ anyEvent' = TRUE
        /\ UNCHANGED <<now, ticks, capacity, settingsEffect, last, ver, auxVars>>

\* fetchFromCKAN throws lastError after its last attempt.
CkanThrow ==
    \E i \in Calls, tid \in TaskIds :
        /\ task[i][tid].pc = "waitCkan"
        /\ Install(Complete(Reject([State EXCEPT !.task[i][tid].ckanSaw = "failed"],
                                   i, tid)))
        /\ anyEvent' = TRUE
        /\ UNCHANGED <<now, ticks, capacity, settingsEffect, last, ver, auxVars>>

\* Time passes: the freshness window of the envelope.
ApiTick ==
    /\ ticks < MaxApiTicks
    /\ now' = now + FRESH_MS
    /\ ticks' = ticks + 1
    /\ anyEvent' = TRUE
    /\ UNCHANGED <<localStorage, capacity, settingsEffect, last, ver, gistData,
                   gistFetchPromise, gistWaiters, gistRequests, gistInFlight, inv, task, auxVars>>

ApiNext ==
    \/ CallFetchAll
    \/ GistFail
    \/ GistArrive
    \/ CkanRecords
    \/ CkanThrow
    \/ ApiTick

SpecApi == ApiInit /\ [][ApiNext]_vars

\* Object.values(ENDPOINTS), in the order of the declaration.
EndpointSeq(v) ==
    IF v = "ckan" THEN FanOut \o <<"tuketim", "sukayiplari", "tarifeler">> ELSE FanOut

\* endpoints.some(endpoint => !Cache.has(endpoint)): has is called on the
\* endpoints in order up to the first one that is missing.
RECURSIVE someMissing(_, _, _, _)
someMissing(ls, seq, k, t) ==
    IF k > Len(seq) THEN [ret |-> FALSE, ls |-> ls]
    ELSE LET h == has(ls, seq[k], t)
         IN  IF ~h.ret THEN [ret |-> TRUE, ls |-> h.ls]
             ELSE someMissing(h.ls, seq, k + 1, t)

\* needsRefresh: api.js asks the cache for every entry of ENDPOINTS, the
\* snapshot-only module tests !gistData.
needsRefresh(v, gd, ls, t) ==
    IF v = "ckan" THEN someMissing(ls, EndpointSeq(v), 1, t)
    ELSE [ret |-> ~gd.held, ls |-> ls]

\* The feed is generated some time before it is fetched: the timestamp the
\* envelope states is that much earlier than _fetchedAt.
FeedAgeMs == 60000

statedTime(gd) == gd.fetchedAt - FeedAgeMs

\* if (timestamp && ...): null, undefined, NaN and 0 are falsy.
truthy(x) == x.kind = "number" /\ x.n # 0

\* The loop of getLastUpdateTime over Object.values(ENDPOINTS).
RECURSIVE latestOf(_, _, _, _)
latestOf(ls, seq, k, latestTimestamp) ==
    IF k > Len(seq) THEN latestTimestamp
    ELSE LET timestamp == getTimestamp(ls, seq[k])
             next == IF truthy(timestamp)
                        /\ (~truthy(latestTimestamp) \/ timestamp.n > latestTimestamp.n)
                     THEN timestamp ELSE latestTimestamp
         IN  IF next.kind # "" THEN latestOf(ls, seq, k + 1, next) ELSE next

\* getLastUpdateTime: the snapshot-only module answers with the envelope's
\* stated time when it holds an envelope; api.js looks at the cache only.
getLastUpdateTime(v, gd, ls) ==
    IF v = "snapshot" /\ gd.held
    THEN Number(statedTime(gd))
    ELSE latestOf(ls, EndpointSeq(v), 1, NullT)

\* Whether every key of the sequence has a valid entry in the cache.
AllValid(ls, seq, t) ==
    \A k \in 1..Len(seq) : EntryValid(ls, seq[k], t, HoursInForce(ls))

\* The newest timestamp among the entries stored for the endpoints.
NewestStored(ls, v) ==
    LET stamps == {ls[getCacheKey(e)].timestamp :
                      e \in {e2 \in ENDPOINTS(v) : ls[getCacheKey(e2)].kind = "entry"}}
    IN  IF stamps = {} THEN NullT ELSE Number(Max(stamps))

\* The page asks whether the data needs a refresh.
NeedsRefresh ==
    LET r == needsRefresh(ver, gistData, localStorage, now)
    IN  /\ localStorage' = r.ls
        /\ last' = [op |-> "needsRefresh", ret |-> r.ret,
                    allValid |-> AllValid(localStorage, EndpointSeq(ver), now),
                    fannedOutValid |-> AllValid(localStorage, FanOut, now),
                    fetchedAll |-> /\ inv[1].status = "returned"
                                   /\ \A e \in FanOutSet : inv[1].result[e].error = NullV
                                   /\ ticks = 0]
        /\ UNCHANGED <<now, ticks, capacity, settingsEffect, apiVars, auxVars>>

\* The status bar asks for the time of the last update.
GetLastUpdateTime ==
    /\ last' = [op |-> "getLastUpdateTime",
                ret |-> getLastUpdateTime(ver, gistData, localStorage),
                held |-> gistData.held,
                stated |-> statedTime(gistData),
                newestStored |-> NewestStored(localStorage, ver)]
    /\ UNCHANGED <<now, ticks, localStorage, capacity, settingsEffect, apiVars, auxVars>>

StatusNext ==
    \/ CallFetchAll
    \/ GistFail
    \/ GistArrive
    \/ CkanRecords
    \/ CkanThrow
    \/ ApiTick
    \/ NeedsRefresh
    \/ GetLastUpdateTime

SpecStatus == ApiInit /\ [][StatusNext]_vars

\* A burst of fetchAll calls on a page with nothing cached, the datastore up.
BurstInit ==
    /\ ApiIdle
    /\ ver \in {"ckan", "snapshot"}
    /\ now = PageLoadMs
    /\ ticks = 0
    /\ localStorage \in {EmptyStorage, StorageWith(FanOutSet, OldValid)}
    /\ capacity = AmpleQuota
    /\ settingsEffect = NoEffect
    /\ last = NoCall
    /\ AuxIdle

BurstNext ==
    \/ CallTogether
    \/ GistFail
    \/ GistArrive
    \/ CkanRecords

SpecBurst == BurstInit /\ [][BurstNext]_vars

-----------------------------------------------------------------------------
(* The getters called one after the other (API.getDamStatus(forceRefresh),  *)
(* ...), any number of times, over the envelope feed and the CKAN           *)
(* datastore.                                                               *)

\* The getters called: one with a CKAN fallback, one without, and
\* getProductionDistribution with a year.
GetterIds == {"barajdurum", "arizakaynaklisukesintileri", "byYear"}

\* The envelopes served: every endpoint with a payload, missing,
\* error-marked, or empty.
GetterFeeds == {[e \in FanOutSet |-> k] : k \in EntryKinds}

GetterStorages ==
    {EmptyStorage, StorageWith({CacheKeyOf(tid) : tid \in GetterIds}, OldValid)}

GettersInit ==
    /\ ApiIdle
    /\ ver \in {"ckan", "snapshot"}
    /\ now = PageLoadMs
    /\ ticks = 0
    /\ localStorage \in GetterStorages
    /\ capacity = AmpleQuota
    /\ settingsEffect = NoEffect
    /\ last = NoCall
    /\ AuxIdle

\* A call slot is free when its getter call has settled.
FreeSlot(i) == \A t \in TaskIds : task[i][t].pc \in {"idle", "fulfilled", "rejected"}

\* What a getter call found when it was made.
CallSeen(i, tid, forceRefresh) ==
    [op |-> "getter", slot |-> i, tid |-> tid, force |-> forceRefresh, at |-> now,
     stored |-> localStorage[getCacheKey(CacheKeyOf(tid))],
     gd |-> gistData, pending |-> gistFetchPromise, requests |-> gistRequests]

\* API.getX(forceRefresh) called in slot i.
StartGetter(i, tid, forceRefresh) ==
    /\ FreeSlot(i)
    /\ LET S1 == RunGetter([State EXCEPT !.task[i] = [t \in TaskIds |-> IdleTask],
                                         !.inv[i].force = forceRefresh],
                           i, tid, forceRefresh)
       IN  S1.greq <= MaxRequests /\ Install(S1)
    /\ last' = CallSeen(i, tid, forceRefresh)
    /\ UNCHANGED <<now, ticks, capacity, settingsEffect, ver, anyEvent, auxVars>>

\* The page calls a getter once the previous call has settled.
CallGetter ==
    \E tid \in GetterIds, forceRefresh \in BOOLEAN : StartGetter(1, tid, forceRefresh)

GistArriveAny == \E c \in GetterFeeds : Arrive(c)

GettersNext ==
    \/ CallGetter
    \/ GistFail
    \/ GistArriveAny
    \/ CkanRecords
    \/ CkanThrow
    \/ ApiTick

SpecGetters == GettersInit /\ [][GettersNext]_vars

-----------------------------------------------------------------------------
(* The envelope alone: getOutages, which has no other source, called at any *)
(* time, also while an envelope request is pending.                         *)

EnvelopeInit ==
    /\ ApiIdle
    /\ ver \in {"ckan", "snapshot"}
    /\ now = PageLoadMs
    /\ ticks = 0
    /\ localStorage = EmptyStorage
    /\ capacity = AmpleQuota
    /\ settingsEffect = NoEffect
    /\ last = NoCall
    /\ AuxIdle

\* The page calls getOutages(forceRefresh) in the first free slot.
CallOutages ==
    \E i \in Calls, forceRefresh \in BOOLEAN :
        /\ \A j \in Calls : j < i => ~FreeSlot(j)
        /\ StartGetter(i, "arizakaynaklisukesintileri", forceRefresh)

\* The envelope arrives, with or without an entry for the outages.
EnvelopeArrive == \E c \in {AllPayload, NonePresent} : Arrive(c)

\* Time passes: a millisecond, or the freshness window less a millisecond.
EnvelopeTickSteps == {1, FRESH_MS - 1}

EnvelopeTick ==
    \E step \in EnvelopeTickSteps :
        /\ ticks < MaxEnvelopeTicks
        /\ now' = now + step
        /\ ticks' = ticks + 1
        /\ anyEvent' = TRUE
        /\ UNCHANGED <<localStorage, capacity, settingsEffect, last, ver, gistData,
                       gistFetchPromise, gistWaiters, gistRequests, gistInFlight, inv, task,
                       auxVars>>

EnvelopeNext ==
    \/ CallOutages
    \/ GistFail
    \/ EnvelopeArrive
    \/ EnvelopeTick

SpecEnvelope == EnvelopeInit /\ [][EnvelopeNext]_vars

-----------------------------------------------------------------------------
(* The cache over a storage it did not write alone: items left by earlier  *)
(* sessions, by other scripts of the origin or by hand, settings saved     *)
(* with any number, and a storage whose every access throws.               *)

\* Date.now() at page load, late enough for every stored timestamp to be
\* positive.
StoreLoadMs == 2 * DEFAULT_TTL_HOURS * HourMs + PageLoadMs

\* An item of another application of the same origin.
ForeignKey == <<"other_", "item">>

StoreKeys == {SETTINGS_KEY, ForeignKey} \cup {getCacheKey(key) : key \in CacheOpKeys}

FreshEntry == Entry("cached", StoreLoadMs - 1)

StaleEntry == Entry("cached", StoreLoadMs - DEFAULT_TTL_HOURS * HourMs - 1)

\* cacheDurationHours as saved: parseInt(input) || 24 lets a negative number
\* through.
StoreHourChoices == {1, -1}

StoredSettings == {Absent, SettingsValue(1), Garbage, JsonNull, JsonOther}

StoredItems == {Absent, FreshEntry, StaleEntry, Garbage, JsonNull, JsonOther}

StoreInit ==
    /\ ApiIdle
    /\ ver = "ckan"
    /\ now = StoreLoadMs
    /\ ticks = 0
    /\ \E st \in StoredSettings, a \in StoredItems, b \in {Absent, FreshEntry} :
           localStorage = [k \in StoreKeys |->
                              IF k = SETTINGS_KEY THEN st
                              ELSE IF k = getCacheKey("barajdurum") THEN a
                              ELSE IF k = getCacheKey("gunluksuuretimi") THEN b
                              ELSE FreshEntry]
    /\ capacity = AmpleQuota
    /\ settingsEffect = NoEffect
    /\ last = NoCall
    /\ storageDown = FALSE
    /\ backoff = << >>
    /\ retry = RetryIdle
    /\ CollectorIdle
    /\ CountdownIdle

\* What the calls of an operation see of the storage: nothing they can read
\* while every access throws.
Visible == IF storageDown THEN [k \in DOMAIN localStorage |-> Absent] ELSE localStorage

\* The items under the prefix other than the settings.
DatasetKeys(ls) ==
    {k \in DOMAIN ls : ls[k].kind # "absent" /\ startsWith(k, CACHE_PREFIX) /\ k # SETTINGS_KEY}

StoreFrame ==
    UNCHANGED <<ticks, capacity, settingsEffect, apiVars, storageDown, backoff, retry,
                collectorVars, countdownVars>>

StoreTick ==
    /\ ticks < MaxStoreTicks
    /\ now' = now + HourMs
    /\ ticks' = ticks + 1
    /\ UNCHANGED <<localStorage, capacity, settingsEffect, last, apiVars, auxVars>>

\* The storage becomes unavailable (access denied) or available again.
StorageToggle ==
    /\ storageDown' = ~storageDown
    /\ UNCHANGED <<now, ticks, localStorage, capacity, settingsEffect, last, apiVars, backoff, retry,
                   collectorVars, countdownVars>>

StoreGet ==
    \E key \in CacheOpKeys :
        LET g == get(Visible, key, now)
            ttl == getTTL(Visible)
        IN  /\ localStorage' = IF storageDown THEN localStorage ELSE g.ls
            /\ last' = [op |-> "get", key |-> key, ret |-> g.ret, raised |-> FALSE,
                        ttl |-> ttl,
                        corrupt |-> Visible[getCacheKey(key)].kind
                                        \in {"garbage", "jsonNull", "jsonOther"},
                        evicted |-> g.ls # Visible]
            /\ UNCHANGED now
            /\ StoreFrame

StoreHas ==
    \E key \in CacheOpKeys :
        LET h == has(Visible, key, now)
        IN  /\ localStorage' = IF storageDown THEN localStorage ELSE h.ls
            /\ last' = [op |-> "has", key |-> key, ret |-> h.ret, raised |-> FALSE]
            /\ UNCHANGED now
            /\ StoreFrame

\* With the storage unavailable setItem throws an error that is not
\* QuotaExceededError: no cleanup, no retry.
StoreSet ==
    \E key \in CacheOpKeys :
        LET s == set(localStorage, key, "gist", now, capacity)
        IN  /\ localStorage' = IF storageDown THEN localStorage ELSE s.ls
            /\ last' = [op |-> "set", key |-> key, raised |-> s.raised,
                        stored |-> ~storageDown]
            /\ UNCHANGED now
            /\ StoreFrame

StoreRemove ==
    \E key \in CacheOpKeys :
        /\ localStorage' = IF storageDown THEN localStorage ELSE remove(localStorage, key)
        /\ last' = [op |-> "remove", key |-> key, raised |-> FALSE]
        /\ UNCHANGED now
        /\ StoreFrame

StoreClearAll ==
    /\ localStorage' = IF storageDown THEN localStorage ELSE clearAll(localStorage)
    /\ last' = [op |-> "clearAll", raised |-> FALSE, down |-> storageDown,
                had |-> DatasetKeys(Visible) # {},
                hadSettings |-> Visible[SETTINGS_KEY].kind = "settings"]
    /\ UNCHANGED now
    /\ StoreFrame

StoreClearOldEntries ==
    /\ localStorage' = IF storageDown THEN localStorage
                       ELSE clearOldEntries(localStorage, now)
    /\ last' = [op |-> "clearOldEntries", raised |-> FALSE]
    /\ UNCHANGED now
    /\ StoreFrame

StoreGetTimestamp ==
    \E key \in CacheOpKeys :
        /\ last' = [op |-> "getTimestamp", key |-> key, raised |-> FALSE,
                    ret |-> getTimestamp(Visible, key)]
        /\ UNCHANGED <<now, localStorage>>
        /\ StoreFrame

StoreGetAge ==
    \E key \in CacheOpKeys :
        /\ last' = [op |-> "getAge", key |-> key, raised |-> FALSE,
                    ret |-> getAge(Visible, key, now)]
        /\ UNCHANGED <<now, localStorage>>
        /\ StoreFrame

StoreGetStats ==
    LET r == getStats(Visible, now)
    IN  /\ last' = [op |-> "getStats", raised |-> r.raised, ret |-> r.ret]
        /\ UNCHANGED <<now, localStorage>>
        /\ StoreFrame

StoreGetSettings ==
    /\ last' = [op |-> "getSettings", raised |-> FALSE, ret |-> getSettings(Visible),
                stored |-> Visible[SETTINGS_KEY]]
    /\ UNCHANGED <<now, localStorage>>
    /\ StoreFrame

StoreSaveSettings ==
    \E h \in StoreHourChoices :
        /\ localStorage' = IF storageDown THEN localStorage
                           ELSE saveSettings(localStorage, SettingsValue(h), capacity)
        /\ last' = [op |-> "saveSettings", raised |-> FALSE, hours |-> h]
        /\ UNCHANGED now
        /\ StoreFrame

StoreNext ==
    \/ StoreTick
    \/ StorageToggle
    \/ StoreGet
    \/ StoreHas
    \/ StoreSet
    \/ StoreRemove
    \/ StoreClearAll
    \/ StoreClearOldEntries
    \/ StoreGetTimestamp
    \/ StoreGetAge
    \/ StoreGetStats
    \/ StoreGetSettings
    \/ StoreSaveSettings

SpecStore == StoreInit /\ [][StoreNext]_vars

-----------------------------------------------------------------------------
(* The preferences other modules keep in the same storage under the same   *)
(* prefix: I18n.setLanguage (src/src/i18n.js), the view modes of Tables    *)
(* (src/unnamed/part_002) and the period of the monthly trend chart        *)
(* (src/src/countdown.js), each written with localStorage.setItem(key,     *)
(* text), beside the entries and the cleanup of the cache.                 *)

PreferenceKeys ==
    {<<"izsu_", "language">>, <<"izsu_", "analysisViewMode">>,
     <<"izsu_", "districtViewMode">>, <<"izsu_", "damQualityViewMode">>,
     <<"izsu_", "monthlyTrendPeriod">>}

ViewModeKeys ==
    {<<"izsu_", "analysisViewMode">>, <<"izsu_", "districtViewMode">>,
     <<"izsu_", "damQualityViewMode">>}

PrefStoreKeys ==
    {SETTINGS_KEY, getCacheKey("barajdurum"), getCacheKey("gunluksuuretimi")}
    \cup PreferenceKeys

\* A stored text that no JSON.stringify made, with what JSON.parse makes
\* of it: a numeral parses to a number, a bare word (tr, card) is rejected.
Text(text) ==
    [kind |-> IF text \in {"12", "24"} THEN "jsonOther" ELSE "garbage", text |-> text]

PrefsInit ==
    /\ ApiIdle
    /\ ver = "ckan"
    /\ now = StoreLoadMs
    /\ ticks = 0
    /\ \E st \in {Absent, SettingsValue(1)}, a \in {Absent, FreshEntry, StaleEntry},
          b \in {Absent, FreshEntry} :
           localStorage = [k \in PrefStoreKeys |->
                              IF k = SETTINGS_KEY THEN st
                              ELSE IF k = getCacheKey("barajdurum") THEN a
                              ELSE IF k = getCacheKey("gunluksuuretimi") THEN b
                              ELSE Absent]
    /\ capacity = AmpleQuota
    /\ settingsEffect = NoEffect
    /\ last = NoCall
    /\ AuxIdle

PrefsFrame ==
    UNCHANGED <<now, ticks, capacity, settingsEffect, apiVars, auxVars>>

\* localStorage.setItem(key, text) of a preference setter.
setItem(ls, k, text) == [ls EXCEPT ![k] = Text(text)]

\* I18n.setLanguage(lang), for a language that is loaded.
SetLanguage ==
    \E lang \in {"tr", "en"} :
        /\ localStorage' = setItem(localStorage, <<"izsu_", "language">>, lang)
        /\ last' = [op |-> "setItem", before |-> localStorage]
        /\ PrefsFrame

\* Tables.setAnalysisViewMode / setDistrictViewMode / setDamQualityViewMode.
SetViewMode ==
    \E k \in ViewModeKeys, mode \in {"card", "table"} :
        /\ localStorage' = setItem(localStorage, k, mode)
        /\ last' = [op |-> "setItem", before |-> localStorage]
        /\ PrefsFrame

\* A click on a period button of the monthly trend chart.
SetTrendPeriod ==
    \E period \in {"12", "24"} :
        /\ localStorage' = setItem(localStorage, <<"izsu_", "monthlyTrendPeriod">>, period)
        /\ last' = [op |-> "setItem", before |-> localStorage]
        /\ PrefsFrame

\* Cache.clearOldEntries(), as Cache.set calls it when the quota is hit.
PrefsClearOldEntries ==
    /\ localStorage' = clearOldEntries(localStorage, now)
    /\ last' = [op |-> "clearOldEntries", before |-> localStorage]
    /\ PrefsFrame

PrefsNext ==
    \/ SetLanguage
    \/ SetViewMode
    \/ SetTrendPeriod
    \/ PrefsClearOldEntries

SpecPrefs == PrefsInit /\ [][PrefsNext]_vars

-----------------------------------------------------------------------------
(* The pacing of the CKAN retries (src/src/api.js)                         *)

RETRY_CONFIG == [maxRetries |-> 3, baseDelayMs |-> 1000, maxDelayMs |-> 10000]

\* Math.random() * 500, in whole milliseconds: the ends and the middle of
\* the interval [0, 500).
JitterDraws == {0, 1, 250, 499}

MathMin(a, b) == IF a <= b THEN a ELSE b

\* getBackoffDelay(attempt), with the draw of Math.random() made explicit.
getBackoffDelay_capFirst(attempt, jitter) ==
    LET delay == RETRY_CONFIG.baseDelayMs * 2 ^ attempt
    IN  MathMin(delay, RETRY_CONFIG.maxDelayMs) + jitter

getBackoffDelay(attempt, jitter) ==
    LET delay == RETRY_CONFIG.baseDelayMs * 2 ^ attempt
    IN  MathMin(delay + jitter, RETRY_CONFIG.maxDelayMs)

BackoffInit ==
    /\ ApiIdle
    /\ ver = "ckan"
    /\ now = PageLoadMs
    /\ ticks = 0
    /\ localStorage = [k \in LSKeys |-> Absent]
    /\ capacity = AmpleQuota
    /\ settingsEffect = NoEffect
    /\ last = NoCall
    /\ storageDown = FALSE
    /\ backoff = << >>
    /\ retry = RetryIdle
    /\ CollectorIdle
    /\ CountdownIdle

\* A call of getBackoffDelay; the call before it is remembered.
GetBackoffDelay ==
    \E attempt \in 0..MaxAttempt, jitter \in JitterDraws :
        /\ backoff' = <<[attempt |-> attempt, jitter |-> jitter,
                         delay |-> getBackoffDelay(attempt, jitter)]>>
                      \o (IF backoff = << >> THEN << >> ELSE <<backoff[1]>>)
        /\ UNCHANGED <<cacheVars, apiVars, storageDown, retry, collectorVars, countdownVars>>

BackoffNext == GetBackoffDelay

SpecBackoff == BackoffInit /\ [][BackoffNext]_vars

-----------------------------------------------------------------------------
(* The retry loops: fetchFromCKAN (src/src/api.js) and fetchWithRetry of    *)
(* the collector (src/src/collect-water-data.js). A loop is suspended       *)
(* while its request is out and while it sleeps.                            *)

\* How a CKAN request settles: the records, a 4xx status, a 5xx status, a
\* network error, a body that is not JSON, or a 2xx body with success =
\* false. The two status classes are one case of the code (!response.ok).
CkanOutcomes == {"records", "status4xx", "status5xx", "network", "parse", "successFalse"}

\* How a request of the collector settles: the parsed body, a network
\* error, a body that is not JSON, or a body whose message is 'An
\* unexpected error occurred'.
CollectorOutcomes == {"data", "network", "parse", "errorMessage"}

\* The draws of Math.random() * 500 that a retry is made with.
RetryJitter == {0, 499}

\* The retries argument of fetchWithRetry (its default).
retries == 3

\* A call: the loop variable is 0 and the first request goes out.
startLoop(fn) ==
    [fn |-> fn, phase |-> "request", attempt |-> 0, requests |-> 1,
     sleeps |-> << >>, outcomes |-> << >>]

\* fetchFromCKAN, from the settling of its request to its next suspension
\* or its end: the records are returned; anything else is caught, and
\* followed by a sleep if attempts remain, by throw lastError if not.
fetchFromCKAN_sleepsAfterLast(R, outcome, jitter) ==
    LET R1 == [R EXCEPT !.outcomes = Append(@, outcome)]
    IN  IF outcome = "records" THEN [R1 EXCEPT !.phase = "returned"]
        ELSE [R1 EXCEPT !.phase = "sleep",
                        !.sleeps = Append(@, getBackoffDelay(R.attempt, jitter))]

fetchFromCKAN_trustsStatus(R, outcome, jitter) ==
    LET R1 == [R EXCEPT !.outcomes = Append(@, outcome)]
    IN  IF outcome \in {"records", "successFalse"} THEN [R1 EXCEPT !.phase = "returned"]
        ELSE IF R.attempt < RETRY_CONFIG.maxRetries
        THEN [R1 EXCEPT !.phase = "sleep",
                        !.sleeps = Append(@, getBackoffDelay(R.attempt, jitter))]
        ELSE [R1 EXCEPT !.phase = "threw"]

fetchFromCKAN(R, outcome, jitter) ==
    LET R1 == [R EXCEPT !.outcomes = Append(@, outcome)]
    IN  IF outcome = "records" THEN [R1 EXCEPT !.phase = "returned"]
        ELSE IF R.attempt < RETRY_CONFIG.maxRetries
        THEN [R1 EXCEPT !.phase = "sleep",
                        !.sleeps = Append(@, getBackoffDelay(R.attempt, jitter))]
        ELSE [R1 EXCEPT !.phase = "threw"]

\* fetchWithRetry, likewise: it waits 2000 * (i + 1) ms between attempts.
fetchWithRetry(R, outcome) ==
    LET R1 == [R EXCEPT !.outcomes = Append(@, outcome)]
    IN  IF outcome = "data" THEN [R1 EXCEPT !.phase = "returned"]
        ELSE IF R.attempt < retries - 1
        THEN [R1 EXCEPT !.phase = "sleep",
                        !.sleeps = Append(@, 2000 * (R.attempt + 1))]
        ELSE [R1 EXCEPT !.phase = "threw"]

\* The sleep is over: the loop variable is incremented and, if the loop
\* condition still holds, the next request goes out; if not, the function
\* throws.
afterSleep(R, attempts) ==
    IF R.attempt + 1 < attempts
    THEN [R EXCEPT !.phase = "request", !.attempt = @ + 1, !.requests = @ + 1]
    ELSE [R EXCEPT !.phase = "threw", !.attempt = @ + 1]

\* The number of attempts each loop allows.
Attempts(fn) == IF fn = "fetchFromCKAN" THEN RETRY_CONFIG.maxRetries + 1 ELSE retries

RetryInit ==
    /\ PureInit
    /\ last = NoCall

RetryFrame ==
    UNCHANGED <<cacheVars, apiVars, storageDown, backoff, collectorVars, countdownVars>>

\* A getter of api.js calls fetchFromCKAN, or the collector fetchWithRetry.
CallRetrying ==
    \E fn \in {"fetchFromCKAN", "fetchWithRetry"} :
        /\ retry.phase \in {"idle", "returned", "threw"}
        /\ retry' = startLoop(fn)
        /\ RetryFrame

\* The CKAN request settles.
CkanSettles ==
    \E outcome \in CkanOutcomes, jitter \in RetryJitter :
        /\ retry.fn = "fetchFromCKAN"
        /\ retry.phase = "request"
        /\ retry' = fetchFromCKAN(retry, outcome, jitter)
        /\ RetryFrame

\* The collector's request settles.
CollectorSettles ==
    \E outcome \in CollectorOutcomes :
        /\ retry.fn = "fetchWithRetry"
        /\ retry.phase = "request"
        /\ retry' = fetchWithRetry(retry, outcome)
        /\ RetryFrame

\* The timer of the sleep fires.
SleepOver ==
    /\ retry.phase = "sleep"
    /\ retry' = afterSleep(retry, Attempts(retry.fn))
    /\ RetryFrame

RetryNext ==
    \/ CallRetrying
    \/ CkanSettles
    \/ CollectorSettles
    \/ SleepOver

SpecRetry == RetryInit /\ [][RetryNext]_vars

\* Every request settles and every timer fires.
SpecRetryFair ==
    /\ RetryInit
    /\ [][RetryNext]_vars
    /\ WF_vars(CkanSettles)
    /\ WF_vars(CollectorSettles)
    /\ WF_vars(SleepOver)

-----------------------------------------------------------------------------
(* The collection job (src/src/collect-water-data.js): collectData fetches  *)
(* dam status and daily production with fetchWithRetry, then rewrites       *)
(* data/history.json. A date is a day number (the order of the ISO date     *)
(* strings), a timestamp the serial number of the run that took it.         *)

\* The number of entries collectData keeps (its slice(0, 24)).
LedgerCap == 24

\* The day of the newest entry of the ledgers the job starts from.
BaseDay == 100

\* createEntry(date, damStatus, dailyProduction): the date and the
\* timestamp; the summary, dams and production fields are carried along
\* untouched by everything below.
createEntry(date, stamp) == [date |-> date, timestamp |-> stamp]

\* history.json as n earlier runs, two days apart, have left it.
LedgerAfter(n) ==
    [exists |-> n > 0,
     entries |-> [i \in 1..n |-> createEntry(BaseDay - 2 * (i - 1), 0)],
     lastUpdated |-> 0]

\* The files the job is started on: none, one made by one run, one a run
\* short of the cap, and a full one.
LedgersLeft == {LedgerAfter(n) : n \in {0, 1, LedgerCap - 1, LedgerCap}}

\* new Date().toISOString().split('T')[0] of a run: a day in a gap of the
\* ledger, the day of its newest entry, or a later day.
RunDays == {BaseDay - 1, BaseDay, BaseDay + 1}

\* history.entries.find(e => e.date === today) and indexOf of what it
\* found: the first index holding today, 0 if there is none.
indexOfDate(entries, today) ==
    IF \E i \in 1..Len(entries) : entries[i].date = today
    THEN CHOOSE i \in 1..Len(entries) :
            /\ entries[i].date = today
            /\ \A j \in 1..(i - 1) : entries[j].date # today
    ELSE 0

\* entries.sort((a, b) => new Date(b.date) - new Date(a.date)): a stable
\* sort, newest first.
RECURSIVE insertByDate(_, _)
insertByDate(e, sorted) ==
    IF sorted = << >> THEN <<e>>
    ELSE IF Head(sorted).date >= e.date
    THEN <<Head(sorted)>> \o insertByDate(e, Tail(sorted))
    ELSE <<e>> \o sorted

RECURSIVE sort(_)
sort(entries) ==
    IF entries = << >> THEN << >>
    ELSE insertByDate(entries[Len(entries)], sort(SubSeq(entries, 1, Len(entries) - 1)))

\* collectData from 'Load existing history' to writeFileSync: the file it
\* writes, given the file it found.
updatedHistory_noReplace(H, today, stamp) ==
    LET sorted == sort(Append(H.entries, createEntry(today, stamp)))
    IN  [exists |-> TRUE,
         entries |-> IF Len(sorted) > LedgerCap THEN SubSeq(sorted, 1, LedgerCap) ELSE sorted,
         lastUpdated |-> stamp]

updatedHistory(H, today, stamp) ==
    LET entries == IF H.exists THEN H.entries ELSE << >>
        index == indexOfDate(entries, today)
        placed == IF index # 0
                  THEN [entries EXCEPT ![index] = createEntry(today, stamp)]
                  ELSE Append(entries, createEntry(today, stamp))
        sorted == sort(placed)
    IN  [exists |-> TRUE,
         entries |-> IF Len(sorted) > LedgerCap THEN SubSeq(sorted, 1, LedgerCap) ELSE sorted,
         lastUpdated |-> stamp]

\* collectData resumed by the end of a fetchWithRetry call R: a throw
\* rejects collectData, and the catch of the call at the bottom of the
\* script exits with code 1; after the dam status the production request
\* goes out; after the production the file is rewritten.
collectData_toleratesProduction(J, H, R) ==
    IF R.phase = "threw" /\ J.phase = "dam"
    THEN [job |-> [J EXCEPT !.phase = "failed", !.exitCode = 1], file |-> H, retry |-> R]
    ELSE IF R.phase = "returned" /\ J.phase = "dam"
    THEN [job |-> [J EXCEPT !.phase = "production", !.fetched = 1], file |-> H,
          retry |-> startLoop("fetchWithRetry")]
    ELSE IF R.phase \in {"returned", "threw"}
    THEN [job |-> [J EXCEPT !.phase = "done"],
          file |-> updatedHistory(H, J.today, J.stamp), retry |-> R]
    ELSE [job |-> J, file |-> H, retry |-> R]

collectData(J, H, R) ==
    IF R.phase = "threw"
    THEN [job |-> [J EXCEPT !.phase = "failed", !.exitCode = 1], file |-> H, retry |-> R]
    ELSE IF R.phase = "returned" /\ J.phase = "dam"
    THEN [job |-> [J EXCEPT !.phase = "production", !.fetched = 1], file |-> H,
          retry |-> startLoop("fetchWithRetry")]
    ELSE IF R.phase = "returned" /\ J.phase = "production"
    THEN [job |-> [J EXCEPT !.phase = "done", !.fetched = 2],
          file |-> updatedHistory(H, J.today, J.stamp), retry |-> R]
    ELSE [job |-> J, file |-> H, retry |-> R]

CollectorInit ==
    /\ ApiIdle
    /\ ver = "ckan"
    /\ now = PageLoadMs
    /\ ticks = 0
    /\ localStorage = [k \in LSKeys |-> Absent]
    /\ capacity = AmpleQuota
    /\ settingsEffect = NoEffect
    /\ last = NoCall
    /\ storageDown = FALSE
    /\ backoff = << >>
    /\ retry = RetryIdle
    /\ CountdownIdle
    /\ collector = NoRun
    /\ historyFile \in LedgersLeft

CollectorFrame == UNCHANGED <<cacheVars, apiVars, storageDown, backoff, countdownVars>>

\* The workflow starts the script: collectData takes the date and sends
\* the dam status request.
RunCollectData ==
    \E today \in RunDays :
        /\ collector.phase \in {"idle", "done", "failed"}
        /\ collector.runs < MaxRuns
        /\ collector' = [phase |-> "dam", today |-> today, stamp |-> collector.runs + 1,
                         runs |-> collector.runs + 1, exitCode |-> 0, fetched |-> 0,
                         atStart |-> historyFile]
        /\ retry' = startLoop("fetchWithRetry")
        /\ UNCHANGED historyFile
        /\ CollectorFrame

\* A request of the job settles: fetchWithRetry goes on to its wait, or
\* ends, and then collectData goes on.
CollectorRequestSettles ==
    \E outcome \in CollectorOutcomes :
        /\ collector.phase \in {"dam", "production"}
        /\ retry.phase = "request"
        /\ LET after == collectData(collector, historyFile, fetchWithRetry(retry, outcome))
           IN  /\ collector' = after.job
               /\ historyFile' = after.file
               /\ retry' = after.retry
        /\ CollectorFrame

CollectorNext ==
    \/ RunCollectData
    \/ CollectorRequestSettles
    \/ SleepOver

SpecCollector == CollectorInit /\ [][CollectorNext]_vars

-----------------------------------------------------------------------------
(* The CORS proxy worker (src/worker/proxy.js): its fetch handler. A        *)
(* request is its method, its Origin header and its url parameter; the      *)
(* response is recorded with the upstream requests made to build it.        *)

ALLOWED_ORIGINS ==
    <<"https://cembaspinar.com", "https://aft.github.io", "http://localhost:5500",
      "http://127.0.0.1:5500", "http://localhost:8000", "http://127.0.0.1:8000">>

ALLOWED_API_HOSTS == {"openapi.izmir.bel.tr", "acikveri.bizizmir.com"}

\* The methods of the requests the worker receives.
RequestMethods == {"GET", "HEAD", "POST", "DELETE", "OPTIONS"}

\* request.headers.get('Origin') || '': no header, two listed origins, and
\* two that are not listed.
RequestOrigins ==
    {"", "https://aft.github.io", "http://localhost:8000", "https://evil.example",
     "https://aft.github.io.evil.example"}

\* url.searchParams.get('url'): null, the empty string, a string new URL
\* rejects, or an absolute URL with its hostname (what new URL makes of
\* it: 'https://openapi.izmir.bel.tr@evil.example/' has hostname
\* evil.example).
TargetHosts ==
    ALLOWED_API_HOSTS \cup {"evil.example", "openapi.izmir.bel.tr.evil.example", "izmir.bel.tr"}

TargetUrls ==
    {[kind |-> "null", hostname |-> ""], [kind |-> "empty", hostname |-> ""],
     [kind |-> "relative", hostname |-> ""]}
    \cup {[kind |-> "absolute", hostname |-> h] : h \in TargetHosts}

\* What the upstream fetch and response.text() come to: a response with
\* its status, or an exception.
UpstreamOutcomes ==
    {[threw |-> TRUE, status |-> 0]}
    \cup {[threw |-> FALSE, status |-> st] : st \in {200, 404, 500}}

\* new URL(targetUrl): throws on a string that is not an absolute URL.
URL(targetUrl) ==
    IF targetUrl.kind = "absolute" THEN [ok |-> TRUE, hostname |-> targetUrl.hostname]
    ELSE [ok |-> FALSE, hostname |-> ""]

\* The headers getCORSHeaders adds: Access-Control-Allow-Origin,
\* Access-Control-Allow-Methods.
getCORSHeaders(origin) ==
    [allowOrigin |-> IF \E i \in 1..Len(ALLOWED_ORIGINS) : ALLOWED_ORIGINS[i] = origin
                     THEN origin ELSE ALLOWED_ORIGINS[1],
     allowMethods |-> "GET, OPTIONS"]

\* A response without CORS headers.
NoCORSHeaders == [allowOrigin |-> "none", allowMethods |-> "none"]

Response(status, error, headers, upstream) ==
    [status |-> status, error |-> error, cors |-> headers, upstream |-> upstream]

handleCORS(origin) == Response(204, "", getCORSHeaders(origin), << >>)

\* The fetch handler of the worker.
fetch_noAllowlist(request, outcome) ==
    IF request.method = "OPTIONS" THEN handleCORS(request.origin)
    ELSE IF request.target.kind \in {"null", "empty"}
    THEN Response(400, "Missing url parameter", NoCORSHeaders, << >>)
    ELSE IF ~URL(request.target).ok
    THEN Response(400, "Invalid URL", NoCORSHeaders, << >>)
    ELSE LET sent == <<[method |-> request.method,
                        hostname |-> URL(request.target).hostname]>>
         IN  IF outcome.threw
             THEN Response(500, "error.message", getCORSHeaders(request.origin), sent)
             ELSE Response(outcome.status, "", getCORSHeaders(request.origin), sent)

fetch(request, outcome) ==
    IF request.method = "OPTIONS" THEN handleCORS(request.origin)
    ELSE IF request.target.kind \in {"null", "empty"}
    THEN Response(400, "Missing url parameter", NoCORSHeaders, << >>)
    ELSE IF ~URL(request.target).ok
    THEN Response(400, "Invalid URL", NoCORSHeaders, << >>)
    ELSE IF URL(request.target).hostname \notin ALLOWED_API_HOSTS
    THEN Response(403, "Host not allowed", NoCORSHeaders, << >>)
    ELSE LET sent == <<[method |-> request.method,
                        hostname |-> URL(request.target).hostname]>>
         IN  IF outcome.threw
             THEN Response(500, "error.message", getCORSHeaders(request.origin), sent)
             ELSE Response(outcome.status, "", getCORSHeaders(request.origin), sent)

ProxyInit ==
    /\ PureInit
    /\ \E m \in RequestMethods, o \in RequestOrigins, t \in TargetUrls :
           last = [op |-> "request", request |-> [method |-> m, origin |-> o, target |-> t]]

\* The worker handles the request.
Fetch ==
    \E outcome \in UpstreamOutcomes :
        /\ last.op = "request"
        /\ last' = [op |-> "fetch", request |-> last.request,
                    response |-> fetch(last.request, outcome)]
        /\ PureFrame

ProxyNext == Fetch

SpecProxy == ProxyInit /\ [][ProxyNext]_vars

-----------------------------------------------------------------------------
(* Countdown (src/src/countdown.js): render, startTicker and its update    *)
(* closure, stop, and the browser's interval timers. The digits' flash     *)
(* animation (lastValues) is left out.                                     *)

\* The usable water render computes from the dam status, in m3.
WaterChoices == {2, 1000}

\* consumptionPerSecond, in m3 per second (dailyConsumption / 1000 / 86400).
RateChoices == {1, 3}

Anchor(t, usableWater, consumptionPerSecond) ==
    [set |-> TRUE, startTime |-> t, startWater |-> usableWater,
     consumptionPerSecond |-> consumptionPerSecond]

\* The markup render writes: every number is "--".
Placeholder == [kind |-> "placeholder"]

\* The module's variables and the browser's timers and document.
CState == [interval |-> countdownInterval, data |-> countdownData, timers |-> timers,
           seq |-> timerSeq, shown |-> shown]

\* What update writes to the elements: the water left, floored at zero, and
\* the seconds it lasts. elapsed = (Date.now() - startTime) / 1000 is a
\* fraction of a second, so the water is carried in litres: 1 m3/s is one
\* litre per millisecond. The element shows Math.floor(currentWater) m3.
Reading_noFloor(d, t) ==
    LET elapsedMs == t - d.startTime
        currentLitres == d.startWater * 1000 - elapsedMs * d.consumptionPerSecond
    IN  [kind |-> "reading", water |-> currentLitres \div 1000,
         totalSeconds |-> currentLitres \div (1000 * d.consumptionPerSecond)]

Reading(d, t) ==
    LET elapsedMs == t - d.startTime
        leftLitres == d.startWater * 1000 - elapsedMs * d.consumptionPerSecond
        currentLitres == IF leftLitres > 0 THEN leftLitres ELSE 0
    IN  [kind |-> "reading", water |-> currentLitres \div 1000,
         totalSeconds |-> currentLitres \div (1000 * d.consumptionPerSecond)]

\* update, the closure of startTicker: nothing without an anchor.
update(C, t) ==
    IF ~C.data.set THEN C
    ELSE [C EXCEPT !.shown = Reading(C.data, t)]

\* clearInterval(id)
clearInterval(C, id) == [C EXCEPT !.timers = @ \ {id}]

\* startTicker: the running interval is cleared, update runs once, and a
\* new interval is set.
startTicker_noClear(C, t) ==
    LET C2 == update(C, t)
        id == C2.seq + 1
    IN  [C2 EXCEPT !.interval = id, !.timers = @ \cup {id}, !.seq = id]

startTicker(C, t) ==
    LET C1 == IF C.interval # 0 THEN clearInterval(C, C.interval) ELSE C
        C2 == update(C1, t)
        id == C2.seq + 1
    IN  [C2 EXCEPT !.interval = id, !.timers = @ \cup {id}, !.seq = id]

\* Countdown.render: without the container element it returns at once.
render(C, container, usableWater, consumptionPerSecond, t) ==
    IF ~container THEN C
    ELSE startTicker([C EXCEPT !.data = Anchor(t, usableWater, consumptionPerSecond),
                               !.shown = Placeholder], t)

\* Countdown.stop
stop_keepsTimer(C) ==
    [C EXCEPT !.interval = 0]

stop(C) ==
    LET C1 == IF C.interval # 0
              THEN [clearInterval(C, C.interval) EXCEPT !.interval = 0]
              ELSE C
    IN  [C1 EXCEPT !.data = NoData]

InstallCountdown(C) ==
    /\ countdownInterval' = C.interval
    /\ countdownData' = C.data
    /\ timers' = C.timers
    /\ timerSeq' = C.seq
    /\ shown' = C.shown

CountdownInit ==
    /\ ApiIdle
    /\ ver = "ckan"
    /\ now = PageLoadMs
    /\ ticks = 0
    /\ localStorage = [k \in LSKeys |-> Absent]
    /\ capacity = AmpleQuota
    /\ settingsEffect = NoEffect
    /\ last = NoCall
    /\ storageDown = FALSE
    /\ backoff = << >>
    /\ retry = RetryIdle
    /\ CollectorIdle
    /\ CountdownIdle

CountdownFrame ==
    UNCHANGED <<ticks, localStorage, capacity, settingsEffect, apiVars, storageDown, backoff,
                retry, collectorVars>>

\* The page renders the dam section: Countdown.render(damStatus, consumptionData).
Render ==
    \E container \in BOOLEAN, usableWater \in WaterChoices, cps \in RateChoices :
        /\ timerSeq < MaxRenders
        /\ InstallCountdown(render(CState, container, usableWater, cps, now))
        /\ last' = [op |-> "render", container |-> container, at |-> now,
                    water |-> usableWater, rate |-> cps, before |-> CState]
        /\ UNCHANGED now
        /\ CountdownFrame

\* Countdown.stop()
Stop ==
    /\ InstallCountdown(stop(CState))
    /\ last' = [op |-> "stop", at |-> now, before |-> CState, shown |-> shown]
    /\ UNCHANGED now
    /\ CountdownFrame

\* The browser runs the callback of an interval that is still active.
TimerFire ==
    \E id \in timers :
        /\ InstallCountdown(update(CState, now))
        /\ UNCHANGED <<now, last>>
        /\ CountdownFrame

\* A second passes.
CountdownTick ==
    /\ ticks < MaxCountdownTicks
    /\ now' = now + 1000
    /\ ticks' = ticks + 1
    /\ UNCHANGED <<localStorage, capacity, settingsEffect, last, apiVars, auxVars>>

CountdownNext ==
    \/ Render
    \/ Stop
    \/ TimerFire
    \/ CountdownTick

SpecCountdown == CountdownInit /\ [][CountdownNext]_vars

\* The countdown left running: the clock advances by half a second, by 400
\* seconds or by 1600 seconds between two callbacks of the interval.
DepletionSteps == {500, 400000, 1600000}

DepletionTick ==
    \E step \in DepletionSteps :
        /\ ticks < MaxDepletionTicks
        /\ now' = now + step
        /\ ticks' = ticks + 1
        /\ UNCHANGED <<localStorage, capacity, settingsEffect, last, apiVars, auxVars>>

DepletionNext ==
    \/ Render
    \/ TimerFire
    \/ DepletionTick

SpecDepletion == CountdownInit /\ [][DepletionNext]_vars

-----------------------------------------------------------------------------
(* Tables.getValueClass (src/unnamed/part_002): the class of a measured     *)
(* value against the limits of its parameter. Values and limits are in      *)
(* hundredths of the unit, so that limit * 1.1, * 0.9, * 0.8 and * 1.2 are   *)
(* compared exactly (v < min * 1.1 is v * 10 < min * 11).                   *)

\* qualityLimits[paramName]: undefined for a parameter without a rule.
NoLimit == [defined |-> FALSE, hasMin |-> FALSE, min |-> 0, hasMax |-> FALSE, max |-> 0]

Limit(hasMin, min, hasMax, max) ==
    [defined |-> TRUE, hasMin |-> hasMin, min |-> min, hasMax |-> hasMax, max |-> max]

\* { min: 0.2, max: 0.5 } as QUALITY_LIMITS has it for free chlorine, the
\* same bounds alone, a rule object with neither bound, and no rule.
LimitChoices ==
    {Limit(TRUE, 20, TRUE, 50), Limit(FALSE, 0, TRUE, 50), Limit(TRUE, 20, FALSE, 0),
     Limit(FALSE, 0, FALSE, 0), NoLimit}

ReadingValues == 0..MaxReading

getValueClass(limit, numValue) ==
    IF ~limit.defined THEN "value-normal"
    ELSE IF limit.hasMin /\ limit.hasMax
    THEN IF numValue < limit.min \/ numValue > limit.max THEN "value-danger"
         ELSE IF numValue * 10 < limit.min * 11 \/ numValue * 10 > limit.max * 9
              THEN "value-warning"
              ELSE "value-normal"
    ELSE IF limit.hasMax
    THEN IF numValue > limit.max THEN "value-danger"
         ELSE IF numValue * 10 > limit.max * 8 THEN "value-warning"
         ELSE "value-normal"
    ELSE IF limit.hasMin
    THEN IF numValue < limit.min THEN "value-danger"
         ELSE IF numValue * 10 < limit.min * 12 THEN "value-warning"
         ELSE "value-normal"
    ELSE "value-normal"

ClassifierInit ==
    /\ PureInit
    /\ \E limit \in LimitChoices, value \in ReadingValues :
           last = [op |-> "input", limit |-> limit, value |-> value]

\* A table cell is rendered: getValueClass(paramName, value, qualityLimits).
GetValueClass ==
    /\ last.op = "input"
    /\ last' = [op |-> "getValueClass", limit |-> last.limit, value |-> last.value,
                ret |-> getValueClass(last.limit, last.value)]
    /\ PureFrame

ClassifierNext == GetValueClass

SpecClassifier == ClassifierInit /\ [][ClassifierNext]_vars

-----------------------------------------------------------------------------
(* The classifiers of the map (MapView, in src/src/i18n.js) beside the one  *)
(* of the tables, over the same limits and values.                          *)

\* MapView.getValueClass for a numeric value.
mapValueClass(limit, numValue) ==
    IF ~limit.defined THEN ""
    ELSE IF limit.hasMax /\ numValue > limit.max THEN "value-danger"
    ELSE IF limit.hasMin /\ numValue < limit.min THEN "value-warning"
    ELSE IF limit.hasMax /\ numValue * 10 > limit.max * 8 THEN "value-warning"
    ELSE "value-good"

\* MapView.evaluateWaterQuality over the list holding one analysis with a
\* numeric value.
evaluateWaterQuality(limit, value) ==
    LET hasDanger == limit.defined /\ limit.hasMax /\ value > limit.max
        hasWarning == /\ limit.defined
                      /\ ~hasDanger
                      /\ \/ limit.hasMin /\ value < limit.min
                         \/ limit.hasMax /\ value * 10 > limit.max * 8
    IN  IF hasDanger THEN "danger"
        ELSE IF hasWarning THEN "warning"
        ELSE "good"

\* The severity a class name or a quality level stands for.
Severity(class) ==
    IF class \in {"value-danger", "danger"} THEN "danger"
    ELSE IF class \in {"value-warning", "warning"} THEN "warning"
    ELSE "good-or-neutral"

\* The reading is shown in a table and on the map.
ClassifyBoth ==
    /\ last.op = "input"
    /\ last' = [op |-> "classify", limit |-> last.limit, value |-> last.value,
                table |-> getValueClass(last.limit, last.value),
                map |-> mapValueClass(last.limit, last.value),
                quality |-> evaluateWaterQuality(last.limit, last.value)]
    /\ PureFrame

ClassifiersNext == ClassifyBoth

SpecClassifiers == ClassifierInit /\ [][ClassifiersNext]_vars

-----------------------------------------------------------------------------
(* Production statistics (src/src/countdown.js): the comparison of today's  *)
(* production with the same month of last year. Percentages and            *)
(* differences, which the code formats with toFixed(1), are in tenths.      *)

\* parseInt(d.UretimMiktari) || 0 of a distribution record, in m3.
AmountChoices == {0, 10, 3000}

\* A record of the distribution: whether it is of last year's current month
\* (d.Yil === lastYear && d.Ay === currentMonth), whether its source is a dam
\* (UretimKaynagi includes 'baraj'), and its amount.
DistributionRecords ==
    [sameMonthLastYear : BOOLEAN, baraj : BOOLEAN, amount : AmountChoices]

Distributions ==
    UNION {[1..n -> DistributionRecords] : n \in 0..MaxRecords}

\* Today's production (dam total, well total) of dailyProduction.
TodayChoices == {<<0, 0>>, <<60, 40>>, <<100, 0>>}

\* Math.round(a / b) and toFixed of a quotient, for b > 0.
RoundDiv(a, b) ==
    IF a >= 0 THEN (2 * a + b) \div (2 * b) ELSE -((2 * (-a) + b) \div (2 * b))

RECURSIVE sumWhere(_, _, _)
\* distribution.filter(...).reduce((sum, d) => sum + amount, 0)
sumWhere(distribution, k, barajOnly) ==
    IF k > Len(distribution) THEN 0
    ELSE LET d == distribution[k]
             counted == d.sameMonthLastYear /\ (~barajOnly \/ d.baraj)
         IN  (IF counted THEN d.amount ELSE 0) + sumWhere(distribution, k + 1, barajOnly)

\* ((part / total) * 100).toFixed(1): "NaN" for 0 / 0.
percentage(part, total) ==
    IF total = 0 THEN NaN ELSE Number(RoundDiv(part * 1000, total))

\* Production.getLastYearSameDayData
getLastYearSameDayData(distribution) ==
    IF \A k \in 1..Len(distribution) : ~distribution[k].sameMonthLastYear
    THEN NullT
    ELSE LET totalProduction == sumWhere(distribution, 1, FALSE)
             barajTotal == sumWhere(distribution, 1, TRUE)
             kuyuTotal == totalProduction - barajTotal
         IN  [kind |-> "data",
              total |-> RoundDiv(totalProduction, 30),
              baraj |-> RoundDiv(barajTotal, 30),
              kuyu |-> RoundDiv(kuyuTotal, 30),
              barajPercentage |-> IF totalProduction # 0
                                  THEN percentage(barajTotal, totalProduction)
                                  ELSE Number(0),
              kuyuPercentage |-> IF totalProduction # 0
                                 THEN percentage(kuyuTotal, totalProduction)
                                 ELSE Number(0)]

\* The three pieces of markup: the 'no data for last year' text, nothing at
\* all, or last year's figure with the difference.
NoDataHtml == [kind |-> "noData"]

EmptyHtml == [kind |-> "empty"]

DeltaHtml(diff) == [kind |-> "delta", diff |-> diff]

\* (parseFloat(pct) - parseFloat(lastYearPct)).toFixed(1)
pctDiff(pct, lastYearPct) ==
    IF pct.kind = "NaN" \/ lastYearPct.kind = "NaN" THEN NaN
    ELSE Number(pct.n - lastYearPct.n)

\* Production.calculateYearOverYearComparison
calculateYearOverYearComparison(totalProd, barajPct, kuyuPct, lastYearData) ==
    IF lastYearData.kind = "null"
    THEN [totalHtml |-> NoDataHtml, barajHtml |-> NoDataHtml, kuyuHtml |-> NoDataHtml]
    ELSE [totalHtml |-> IF lastYearData.total # 0
                        THEN DeltaHtml(Number(RoundDiv((totalProd - lastYearData.total) * 1000,
                                                       lastYearData.total)))
                        ELSE EmptyHtml,
          barajHtml |-> DeltaHtml(pctDiff(barajPct, lastYearData.barajPercentage)),
          kuyuHtml |-> DeltaHtml(pctDiff(kuyuPct, lastYearData.kuyuPercentage))]

\* Production.renderProductionStats, as far as the comparison goes.
renderProductionStats(today, distribution) ==
    LET barajTotal == today[1]
        totalProduction == today[1] + today[2]
        kuyuTotal == totalProduction - barajTotal
    IN  calculateYearOverYearComparison(totalProduction,
                                        percentage(barajTotal, totalProduction),
                                        percentage(kuyuTotal, totalProduction),
                                        getLastYearSameDayData(distribution))

ProductionInit ==
    /\ PureInit
    /\ \E today \in TodayChoices, distribution \in Distributions :
           last = [op |-> "input", today |-> today, distribution |-> distribution]

RenderProductionStats ==
    /\ last.op = "input"
    /\ last' = [op |-> "renderProductionStats", today |-> last.today,
                distribution |-> last.distribution,
                lastYearData |-> getLastYearSameDayData(last.distribution),
                ret |-> renderProductionStats(last.today, last.distribution)]
    /\ PureFrame

ProductionNext == RenderProductionStats

SpecProduction == ProductionInit /\ [][ProductionNext]_vars

-----------------------------------------------------------------------------
(* The fill level of the countdown (src/src/countdown.js): the totals       *)
(* render takes over the dam list, and the two quotients by the usable     *)
(* capacity: fillPercentage of render and fillPct of the first update.     *)
(* Volumes are in m3, percentages in tenths.                                *)

\* A record of the dam list: SuDurumu, MinimumSuKapasitesi and
\* MaksimumSuKapasitesi, 0 for a field that is 0, null or missing
\* (d.SuDurumu || 0).
DamRecords == [SuDurumu : {0, 50}, MinimumSuKapasitesi : {0, 10},
               MaksimumSuKapasitesi : {0, 10, 100}]

\* The dam lists render is called with.
DamLists == UNION {[1..n -> DamRecords] : n \in 0..MaxDams}

\* damStatus.reduce((sum, d) => sum + (d[field] || 0), 0)
RECURSIVE total(_, _, _)
total(damStatus, k, field) ==
    IF k > Len(damStatus) THEN 0
    ELSE damStatus[k][field] + total(damStatus, k + 1, field)

\* a / b * 100 as JavaScript computes it: NaN for 0 / 0, an infinity for
\* another number over 0, the percentage otherwise.
percentOf(a, b) ==
    IF b = 0
    THEN (IF a = 0 THEN NaN
          ELSE [kind |-> IF a > 0 THEN "Infinity" ELSE "-Infinity"])
    ELSE [kind |-> "number", tenths |-> RoundDiv(a * 1000 * (IF b < 0 THEN -1 ELSE 1),
                                                 IF b < 0 THEN -b ELSE b)]

\* Math.min(100, Math.max(0, x)): NaN stays NaN.
clampPercent(x) ==
    IF x.kind = "NaN" THEN NaN
    ELSE IF x.kind = "Infinity" THEN [kind |-> "number", tenths |-> 1000]
    ELSE IF x.kind = "-Infinity" THEN [kind |-> "number", tenths |-> 0]
    ELSE [kind |-> "number", tenths |-> Min({1000, Max({0, x.tenths})})]

\* render, from the totals to fillPercentage, and the fillPct of the
\* update that startTicker runs at once (no time has passed: currentWater
\* is Math.max(0, startWater)).
fillLevel(damStatus) ==
    LET totalCurrent == total(damStatus, 1, "SuDurumu")
        totalMin == total(damStatus, 1, "MinimumSuKapasitesi")
        totalMax == total(damStatus, 1, "MaksimumSuKapasitesi")
        usableWater == totalCurrent - totalMin
        usableCapacity == totalMax - totalMin
    IN  [usableWater |-> usableWater,
         usableCapacity |-> usableCapacity,
         divisors |-> <<usableCapacity, usableCapacity>>,
         fillPercentage |-> percentOf(usableWater, usableCapacity),
         fillPct |-> clampPercent(percentOf(Max({0, usableWater}), usableCapacity))]

FillInit ==
    /\ PureInit
    /\ \E damStatus \in DamLists : last = [op |-> "input", damStatus |-> damStatus]

\* The page renders the countdown for the dam list.
RenderFill ==
    /\ last.op = "input"
    /\ last' = [op |-> "render", damStatus |-> last.damStatus,
                fill |-> fillLevel(last.damStatus)]
    /\ PureFrame

FillNext == RenderFill

SpecFill == FillInit /\ [][FillNext]_vars

-----------------------------------------------------------------------------
(* Cache Store properties *)

\* C1: Cache.get(key) returns a non-null value if and only if an entry for
\* the key is stored and now - storedAt <= ttlMs, with ttlMs taken from the
\* settings in force when get is called (cacheDurationHours * 3600000).
C1_GetIffWithinCurrentTTL ==
    last.op = "get" =>
        (last.ret # NullV <=>
            (last.had /\ last.at - last.ts <= last.hours * 3600000))

\* A get that answered from an entry whose age is exactly the TTL in force,
\* under settings saved after nothing or something else was in force.
C1_Witness ==
    /\ last.op = "get"
    /\ last.had
    /\ last.ret = last.data
    /\ last.ret # NullV
    /\ last.at - last.ts = last.hours * 3600000
    /\ last.hours # DEFAULT_TTL_HOURS

\* C2: a TTL change applies retroactively. After saveSettings has lowered
\* the TTL below the age of a stored entry, the next get of that key returns
\* null; after saveSettings has raised the TTL so that an entry still stored
\* is within it again, the next get (while the age is within the TTL)
\* returns the stored payload.
C2_TTLChangeIsRetroactive ==
    last.op = "get" =>
        /\ (last.effect = "invalidated" => last.ret = NullV)
        /\ (last.effect = "revalidated" /\ last.at - last.ts <= last.hours * 3600000
                => last.had /\ last.ret = last.data /\ last.ret # NullV)

\* A get that returned null for an entry younger than the default TTL,
\* right after a saveSettings that lowered the TTL below its age.
C2_Witness ==
    /\ last.op = "get"
    /\ last.effect = "invalidated"
    /\ last.had
    /\ last.ret = NullV
    /\ last.at - last.ts <= DEFAULT_TTL_HOURS * 3600000

\* The other half of C2 happens too: an expired but not evicted entry is
\* served again after the TTL was raised.
C2_RevalidatedReached ==
    /\ last.op = "get"
    /\ last.effect = "revalidated"
    /\ last.ret = last.data
    /\ last.ret # NullV

\* C10: when the storage write of Cache.set fails for lack of quota, set
\* runs clearOldEntries once and retries the write once, and gives up
\* without raising if the retry fails too: at most two write attempts and
\* one eviction pass per call, and the call always returns normally.
C10_SetRetriesOnceAndNeverRaises ==
    last.op = "set" =>
        /\ last.writes <= 2
        /\ last.evictions <= 1
        /\ ~last.raised
        /\ (last.full <=> last.evictions = 1)
        /\ (last.full <=> last.writes = 2)

\* A set whose first write hit the quota and whose retry failed as well:
\* the entry is not stored and the call returned.
C10_Witness ==
    /\ last.op = "set"
    /\ last.full
    /\ last.writes = 2
    /\ last.evictions = 1
    /\ localStorage[getCacheKey(last.key)].kind = "absent"

\* C11: no Cache operation propagates an exception to its caller, whatever
\* the storage holds (malformed or non-object JSON under the settings key or
\* an entry key included) and whether or not the storage can be accessed;
\* a read of an item that is not an entry is answered as a miss (null).
C11_NoOperationRaises ==
    /\ ~last.raised
    /\ (last.op = "get" /\ last.corrupt) => last.ret = NullV

\* C12: getSettings always returns a usable settings object, the hardcoded
\* defaults when nothing is stored or what is stored is not a settings
\* object with a positive cacheDurationHours; the TTL that get uses is a
\* positive number of milliseconds.
C12_SettingsAlwaysUsable ==
    /\ last.op = "getSettings" =>
           /\ last.ret.kind = "settings"
           /\ last.ret.cacheDurationHours > 0
           /\ ~(last.stored.kind = "settings" /\ last.stored.cacheDurationHours > 0)
                  => last.ret = SettingsValue(DEFAULT_TTL_HOURS)
    /\ last.op = "get" => (last.ttl.kind = "number" /\ last.ttl.n > 0)

\* C13: the stored settings are changed by saveSettings only: a step of any
\* other operation (get, set, has, remove, clearAll, clearOldEntries,
\* getStats, ...) or of the clock leaves what getSettings returns unchanged.
C13_SettingsChangedOnlyBySave ==
    [][last'.op # "saveSettings" =>
          /\ localStorage'[SETTINGS_KEY] = localStorage[SETTINGS_KEY]
          /\ getSettings(localStorage') = getSettings(localStorage)]_vars

\* C14: after clearAll() on an accessible storage no item under the prefix
\* remains: get returns null for every key, getStats counts no entry, a
\* second clearAll() leaves the storage as it is, and the items of other
\* applications are still there.
C14_ClearAllEmptiesAndIsIdempotent ==
    (last.op = "clearAll" /\ ~last.down) =>
        /\ DatasetKeys(localStorage) = {}
        /\ \A key \in CacheOpKeys : get(localStorage, key, now).ret = NullV
        /\ getStats(localStorage, now) =
               [raised |-> FALSE,
                ret |-> [entryCount |-> 0, oldestTimestamp |-> NullT,
                         newestTimestamp |-> NullT,
                         ttlHours |-> Number(DEFAULT_TTL_HOURS)]]
        /\ clearAll(localStorage) = localStorage
        /\ localStorage[ForeignKey] = FreshEntry

\* clearAll() has run on a storage that held dataset items.
C14_Witness ==
    /\ last.op = "clearAll"
    /\ ~last.down
    /\ last.had
    /\ DatasetKeys(localStorage) = {}
    /\ clearAll(localStorage) = localStorage

ReadOnlyOps == {"getStats", "getTimestamp", "getAge", "getSettings"}

\* C15: the timestamp of an entry is set at write time only. getStats,
\* getTimestamp and getAge leave the storage unchanged; get and has change
\* it only by deleting the entry they were asked for, and only when it is
\* older than the TTL; an entry's payload or timestamp changes only when
\* Cache.set writes that key, the timestamp being the time of the write.
C15_TimestampSetAtWriteOnly ==
    [][/\ last'.op \in ReadOnlyOps => localStorage' = localStorage
       /\ last'.op \in {"get", "has"} =>
              \A k \in DOMAIN localStorage :
                  localStorage'[k] # localStorage[k] =>
                      /\ k = getCacheKey(last'.key)
                      /\ localStorage'[k] = Absent
                      /\ localStorage[k].kind = "entry"
                      /\ expired(now, Number(localStorage[k].timestamp),
                                 getTTL(localStorage))
       /\ \A k \in DOMAIN localStorage :
              (localStorage[k].kind = "entry" /\ localStorage'[k].kind = "entry"
               /\ localStorage'[k] # localStorage[k]) =>
                  /\ last'.op = "set"
                  /\ k = getCacheKey(last'.key)
                  /\ localStorage'[k].timestamp = now']_vars

\* A get has deleted the expired entry it was asked for while the other
\* entry, written earlier than now, is still stored with its timestamp.
C15_Witness ==
    /\ last.op = "get"
    /\ last.evicted
    /\ last.ret = NullV
    /\ localStorage[getCacheKey(last.key)] = Absent
    /\ \E key \in CacheOpKeys :
           /\ localStorage[getCacheKey(key)].kind = "entry"
           /\ localStorage[getCacheKey(key)].timestamp < now

-----------------------------------------------------------------------------
(* Data Service properties *)

Settled(t) == t.pc \in {"fulfilled", "rejected"}

AllSettled(i) == \A e \in FanOutSet : Settled(task[i][e])

\* The cache or a source handed this getter call a payload.
CallYielded(t) == t.expectHit \/ t.gistSaw = "payload" \/ t.ckanSaw = "ok"

\* ... for an endpoint of fetchAll: getDamsAndWells of api.js also has the
\* dam status as a source.
Yielded(i, e) ==
    \/ CallYielded(task[i][e])
    \/ e = "barajvekuyular" /\ ver = "ckan" /\ CallYielded(task[i]["nested"])

\* The payload that was handed over.
YieldedData(i, e) ==
    LET t == task[i][e]
    IN  IF t.expectHit THEN t.cachedVal
        ELSE IF t.gistSaw = "payload" THEN "gist"
        ELSE IF t.ckanSaw = "ok" THEN "ckan"
        ELSE "derived"

\* C3: fetchAll invocations started together while no fresh envelope is
\* held issue at most one envelope request in total until all of them have
\* completed, whatever the outcome of the request.
C3_AtMostOneEnvelopeRequest ==
    (\A i \in Calls : inv[i].status \in {"idle", "returned"}) => gistRequests <= 1

\* C4: failure isolation. When fetchAll's getters have settled it has
\* returned, and for distinct endpoints A and B, if no source yielded a
\* payload for A while one did for B, B's slot carries B's payload and a
\* null error.
C4_FailureIsolation ==
    \A i \in Calls :
        AllSettled(i) =>
            /\ inv[i].status = "returned"
            /\ \A A \in FanOutSet, B \in FanOutSet :
                   (A # B /\ ~Yielded(i, A) /\ Yielded(i, B)) =>
                       inv[i].result[B] = [data |-> YieldedData(i, B), error |-> NullV]

\* The dam-status getter threw (envelope unusable, CKAN failed) while daily
\* production came from CKAN: its slot has the data and no error.
C4_Witness ==
    /\ ver = "ckan"
    /\ inv[1].status = "returned"
    /\ task[1]["barajdurum"].pc = "rejected"
    /\ task[1]["gunluksuuretimi"].ckanSaw = "ok"
    /\ inv[1].result["gunluksuuretimi"] = [data |-> "ckan", error |-> NullV]
    /\ inv[1].result["barajdurum"].error # NullV

DefinedValues == {"gist", "ckan", "cached", "derived", "emptyArr", "emptyWrap", NullV}

C6_ResultOnlyAfterAllSettled ==
    \A i \in Calls :
        /\ inv[i].status = "returned" => AllSettled(i)
        /\ inv[i].status # "rejected"
        /\ AllSettled(i) => inv[i].status = "returned"

\* fetchAll has returned after a run in which getters were rejected and
\* others fulfilled.
C6_Witness ==
    /\ inv[1].status = "returned"
    /\ \E e \in FanOutSet : task[1][e].pc = "rejected"
    /\ \E e \in FanOutSet : task[1][e].pc = "fulfilled" /\ task[1][e].ckanSaw = "ok"

\* C7: a getter called with forceRefresh = false while the cache holds a
\* valid entry for its key returns the cached payload, issues no network
\* request and does not write to the cache.
C7_CacheHitNoNetwork ==
    \A i \in Calls, tid \in TaskIds :
        task[i][tid].expectHit =>
            /\ task[i][tid].pc = "fulfilled"
            /\ task[i][tid].val = task[i][tid].cachedVal
            /\ task[i][tid].net = 0
            /\ task[i][tid].wrote = 0

\* getDamStatus was answered from the cache in a fetchAll whose other
\* getters went to the network.
C7_Witness ==
    /\ task[1]["barajdurum"].expectHit
    /\ task[1]["barajdurum"].pc = "fulfilled"
    /\ task[1]["barajdurum"].val = "cached"
    /\ gistRequests > 0
    /\ task[1]["gunluksuuretimi"].pc = "waitCkan"

\* C8: a negative result is never cached: a getter call that obtained no
\* payload from any source writes no entry to the cache.
C8_NegativeResultNeverCached ==
    \A i \in Calls, tid \in TaskIds :
        (Settled(task[i][tid]) /\ ~Yielded(i, tid)) => task[i][tid].wrote = 0

\* C9 as claimed: in the result of fetchAll an endpoint's error is non-null
\* if and only if every source for it failed to yield a payload, the data
\* slot then holding the fallback.
C9_ErrorIffEverySourceFailed ==
    \A i \in Calls :
        inv[i].status = "returned" =>
            \A e \in FanOutSet :
                /\ inv[i].result[e].error # NullV <=> ~Yielded(i, e)
                /\ inv[i].result[e].error # NullV => inv[i].result[e].data = Fallback(e)

\* C9 as amended: the error is non-null exactly when the endpoint's getter
\* threw or (snapshot-only module) returned null, which happens only when
\* no source yielded a payload; the data slot then holds the fallback. When
\* the cache or a source yielded a payload the error is null and the data
\* is that payload. A getter that answers the failure of its sources with
\* its empty sentinel has a null error and the sentinel as data.
C9_ErrorOnlyIfEverySourceFailed ==
    \A i \in Calls :
        inv[i].status = "returned" =>
            \A e \in FanOutSet :
                LET slot == inv[i].result[e]
                    t == task[i][e]
                IN  /\ slot.error # NullV <=>
                           (t.pc = "rejected" \/ (ver = "snapshot" /\ t.val = NullV))
                    /\ slot.error # NullV => (~Yielded(i, e) /\ slot.data = Fallback(e))
                    /\ Yielded(i, e) => (slot.error = NullV /\ slot.data = YieldedData(i, e))
                    /\ (slot.error = NullV /\ ~Yielded(i, e)) =>
                           slot.data \in {"emptyArr", "emptyWrap"}

\* fetchAll of api.js returned after the envelope request failed: outages
\* has its empty sentinel and no error, dam status (CKAN failed too) has the
\* fallback and an error.
C9_Witness ==
    /\ ver = "ckan"
    /\ inv[1].status = "returned"
    /\ task[1]["arizakaynaklisukesintileri"].gistSaw = "failed"
    /\ inv[1].result["arizakaynaklisukesintileri"] = [data |-> "emptyArr", error |-> NullV]
    /\ task[1]["barajdurum"].ckanSaw = "failed"
    /\ inv[1].result["barajdurum"] = [data |-> "emptyArr", error |-> ErrorText]

\* C16: needsRefresh() returns true if and only if the endpoints of
\* ENDPOINTS do not all have a valid entry in the cache; called right after
\* a fetchAll that fetched every endpoint successfully, before any entry
\* expires, it returns false.
C16_NeedsRefreshIffCacheIncomplete ==
    last.op = "needsRefresh" =>
        /\ last.ret <=> ~last.allValid
        /\ last.fetchedAll => ~last.ret

\* C17: getLastUpdateTime() returns the maximum of the timestamp the held
\* envelope states and the newest timestamp stored for an endpoint in the
\* cache, and null exactly when no envelope is held and no entry is stored.
C17_LastUpdateIsMaxOfEnvelopeAndCache ==
    last.op = "getLastUpdateTime" =>
        LET stamps == (IF last.held THEN {last.stated} ELSE {})
                      \cup (IF last.newestStored.kind = "number"
                            THEN {last.newestStored.n} ELSE {})
        IN  last.ret = IF stamps = {} THEN NullT ELSE Number(Max(stamps))

\* C18: getBackoffDelay(n) is min(baseDelayMs * 2^n + jitter, maxDelayMs)
\* with jitter in [0, 500): it never exceeds the cap of 10000 ms, it is at
\* least the exponential term (or the cap), and every delay of a later
\* attempt is at least every delay of an earlier one.
C18_BackoffMonotoneCappedJittered ==
    /\ \A k \in 1..Len(backoff) :
           LET c == backoff[k]
               exponential == 1000 * 2 ^ c.attempt
           IN  /\ c.jitter >= 0 /\ c.jitter < 500
               /\ c.delay <= 10000
               /\ c.delay = IF exponential + c.jitter <= 10000
                            THEN exponential + c.jitter ELSE 10000
    /\ \A j \in 1..Len(backoff), k \in 1..Len(backoff) :
           backoff[j].attempt < backoff[k].attempt => backoff[j].delay <= backoff[k].delay

\* The delay of attempt 3 with the largest jitter, then that of attempt 4,
\* which the cap cuts.
C18_Witness ==
    /\ Len(backoff) = 2
    /\ backoff[2] = [attempt |-> 3, jitter |-> 499, delay |-> 8499]
    /\ backoff[1].attempt = 4
    /\ backoff[1].delay = 10000

-----------------------------------------------------------------------------
(* Countdown properties *)

\* C19 as claimed: at most one ticker is active and one is active exactly
\* when an anchor is set; after render the countdown is running on a fresh
\* anchor (startTime, startWater) with a newly started interval, after stop
\* it is stopped, the anchor cleared and the interval cancelled.
C19_RenderStartsStopStops ==
    /\ Cardinality(timers) <= 1
    /\ (timers # {}) <=> countdownData.set
    /\ last.op = "render" =>
           /\ countdownData = Anchor(last.at, last.water, last.rate)
           /\ timers = {countdownInterval}
           /\ countdownInterval \notin last.before.timers
    /\ last.op = "stop" =>
           /\ ~countdownData.set
           /\ timers = {}
           /\ countdownInterval = 0

\* C19 as amended: the same, for a render that finds the countdown's
\* container element in the document; a render that does not find it
\* returns without touching the anchor or the ticker.
C19_RenderWithContainerStartsStopStops ==
    /\ Cardinality(timers) <= 1
    /\ (timers # {}) <=> countdownData.set
    /\ (last.op = "render" /\ last.container) =>
           /\ countdownData = Anchor(last.at, last.water, last.rate)
           /\ timers = {countdownInterval}
           /\ countdownInterval \notin last.before.timers
    /\ (last.op = "render" /\ ~last.container) =>
           /\ countdownData = last.before.data
           /\ timers = last.before.timers
           /\ countdownInterval = last.before.interval
    /\ last.op = "stop" =>
           /\ ~countdownData.set
           /\ timers = {}
           /\ countdownInterval = 0

\* render was called while the countdown was running on an older anchor: the
\* anchor is the new one and the only active interval is a new one.
C19_Witness ==
    /\ last.op = "render"
    /\ last.container
    /\ last.before.data.set
    /\ last.before.data.startTime < last.at
    /\ countdownData.startTime = last.at
    /\ timers = {countdownInterval}
    /\ last.before.timers # {}
    /\ last.before.timers # timers

\* C20: stop is idempotent and final. Stopping twice is stopping once, stop
\* on a stopped countdown changes nothing, and after stop has returned no
\* interval is active and the display stays as stop left it until the next
\* render.
C20_StopIsIdempotentAndFinal ==
    /\ stop(stop(CState)) = stop(CState)
    /\ (countdownInterval = 0 /\ ~countdownData.set) => stop(CState) = CState
    /\ last.op = "stop" =>
           /\ timers = {}
           /\ shown = last.shown

\* stop was called on a countdown that an earlier stop had already stopped,
\* and time has passed since: the display still has the last reading.
C20_Witness ==
    /\ last.op = "stop"
    /\ ~last.before.data.set
    /\ last.before.interval = 0
    /\ timerSeq > 0
    /\ now > last.at
    /\ shown.kind = "reading"
    /\ shown = last.shown

-----------------------------------------------------------------------------
(* Countdown arithmetic *)

\* C21: for a fixed anchor and a positive consumptionPerSecond, every reading
\* the ticker writes shows floor(max(0, startWater - e * rate)) m3 and
\* floor(remaining / rate) seconds for the elapsed time e of that callback:
\* 1000 m3 at 1 m3/s reads 600 after 400 s and 0 after 2000 s; the volume is
\* never negative, and under one anchor it never grows from a reading to the
\* next.
C21_VolumeFlooredAtZeroAndNonIncreasing ==
    [][ (shown'.kind = "reading" /\ shown' # shown) =>
          LET d == countdownData'
              rate == d.consumptionPerSecond
              e == now' - d.startTime
              left == d.startWater * 1000 - e * rate
          IN  /\ d.set
              /\ rate > 0
              /\ shown'.water >= 0
              /\ shown'.totalSeconds >= 0
              /\ IF left <= 0
                 THEN shown'.water = 0 /\ shown'.totalSeconds = 0
                 ELSE /\ shown'.water * 1000 <= left
                      /\ left < (shown'.water + 1) * 1000
                      /\ shown'.totalSeconds * rate * 1000 <= left
                      /\ left < (shown'.totalSeconds + 1) * rate * 1000
              /\ (d.startWater = 1000 /\ rate = 1 /\ e = 400000)
                    => (shown'.water = 600 /\ shown'.totalSeconds = 600)
              /\ (d.startWater = 1000 /\ rate = 1 /\ e = 2000000)
                    => (shown'.water = 0 /\ shown'.totalSeconds = 0)
              /\ (shown.kind = "reading" /\ countdownData' = countdownData)
                    => shown'.water <= shown.water
      ]_vars

\* 2000 seconds after an anchor of 1000 m3 at 1 m3/s the element reads 0.
C21_Witness ==
    /\ countdownData.set
    /\ countdownData.startWater = 1000
    /\ countdownData.consumptionPerSecond = 1
    /\ now - countdownData.startTime = 2000000
    /\ shown.kind = "reading"
    /\ shown.water = 0

-----------------------------------------------------------------------------
(* Water-quality classifier *)

\* The rule as stated: danger outside a bound; warning above 80% of max
\* whenever a max is defined, or under 1.1 x min (both bounds) / 1.2 x min
\* (min only); good otherwise; neutral without a rule. The code has one
\* class, value-normal, for good and for neutral.
StatedClass(limit, v) ==
    IF ~limit.defined \/ (~limit.hasMin /\ ~limit.hasMax) THEN "value-normal"
    ELSE IF (limit.hasMax /\ v > limit.max) \/ (limit.hasMin /\ v < limit.min)
    THEN "value-danger"
    ELSE IF \/ limit.hasMax /\ v * 10 > limit.max * 8
            \/ limit.hasMin /\ limit.hasMax /\ v * 10 < limit.min * 11
            \/ limit.hasMin /\ ~limit.hasMax /\ v * 10 < limit.min * 12
    THEN "value-warning"
    ELSE "value-normal"

\* C22: Tables.getValueClass agrees with the stated rule for every numeric
\* value and every threshold rule, and against {min: 0.2, max: 0.5} 0.3 is
\* good, 0.55 is danger and 0.21 is warning.
C22_ClassifierAgreesWithStatedRule ==
    last.op = "getValueClass" =>
        /\ last.ret = StatedClass(last.limit, last.value)
        /\ (last.limit = Limit(TRUE, 20, TRUE, 50) /\ last.value = 30)
              => last.ret = "value-normal"
        /\ (last.limit = Limit(TRUE, 20, TRUE, 50) /\ last.value = 55)
              => last.ret = "value-danger"
        /\ (last.limit = Limit(TRUE, 20, TRUE, 50) /\ last.value = 21)
              => last.ret = "value-warning"

-----------------------------------------------------------------------------
(* Year-over-year comparison *)

\* Last year's month has no record, or the total it is compared against is
\* zero.
PriorYearUnusable(r) ==
    \/ r.lastYearData.kind = "null"
    \/ r.lastYearData.total = 0
    \/ sumWhere(r.distribution, 1, FALSE) = 0

\* C23: whenever last year's same month has no matching record or its total
\* is zero, all three outputs (total, dam share, well share) are the 'no
\* prior-year data' signal, never a figure, NaN or Infinity, for every total
\* of today, zero included.
C23_NoPriorYearDataSignal ==
    (last.op = "renderProductionStats" /\ PriorYearUnusable(last)) =>
        /\ last.ret.totalHtml = NoDataHtml
        /\ last.ret.barajHtml = NoDataHtml
        /\ last.ret.kuyuHtml = NoDataHtml

-----------------------------------------------------------------------------
(* The envelope request *)

\* The envelope a call found in memory was fresh.
FoundFresh(l) == l.gd.held /\ l.gd.fetchedAt # 0 /\ l.at - l.gd.fetchedAt < FRESH_MS

\* The call got as far as fetchFromGist: forceRefresh, or no valid entry.
ReachedFeed(l) ==
    l.force \/ ~(l.stored.kind = "entry"
                 /\ l.at - l.stored.timestamp <= DEFAULT_TTL_HOURS * HourMs)

\* C24: at most one envelope request is in flight; the handle
\* gistFetchPromise is set exactly while one is; callers wait only on a
\* request that is in flight; and a call that needs the envelope when none
\* is fresh issues a request exactly if none is pending, so that after a
\* failed request the next call issues a new one.
C24_HandleSetExactlyWhileInFlight ==
    /\ gistInFlight <= 1
    /\ gistFetchPromise <=> gistInFlight = 1
    /\ gistWaiters # << >> => gistInFlight = 1
    /\ (last.op = "getter" /\ ReachedFeed(last) /\ ~FoundFresh(last)) =>
          gistRequests = last.requests + (IF last.pending THEN 0 ELSE 1)

\* The first request failed, a later call issued the second, and another
\* call attached to it.
C24_Witness ==
    /\ gistRequests = 2
    /\ gistInFlight = 1
    /\ ~gistData.held
    /\ Len(gistWaiters) = 2
    /\ last.op = "getter"
    /\ last.pending

-----------------------------------------------------------------------------
(* The getters and their sources *)

\* The getter call observed in last has settled.
LastSettled == task[last.slot][last.tid].pc \in {"fulfilled", "rejected"}

\* Every source the call turned to failed: the envelope request, if one was
\* consulted, and the CKAN request, if one was made.
EverySourceFailed(t) ==
    /\ t.gistSaw \in {"none", "failed"}
    /\ t.ckanSaw \in {"none", "failed"}
    /\ t.gistSaw = "failed" \/ t.ckanSaw = "failed"

\* C25: when a valid entry is stored and a getter called with
\* forceRefresh=true finds every source failing, the entry is left as it
\* was (so the next call without forceRefresh returns the cached payload).
C25_FailedRefreshKeepsEntry ==
    (/\ last.op = "getter"
     /\ last.force
     /\ last.stored.kind = "entry"
     /\ LastSettled
     /\ EverySourceFailed(task[last.slot][last.tid])) =>
        localStorage[getCacheKey(CacheKeyOf(last.tid))] = last.stored

\* A step in which the getter call tid of slot i requests the CKAN datastore.
CkanRequested(i, tid) == task'[i][tid].pc = "waitCkan" /\ task[i][tid].pc # "waitCkan"

C27_UnusableEntryIsNotReturned ==
    \A i \in Calls, tid \in TaskIds :
        LET t == task[i][tid]
        IN  t.gistSaw = "unusable" =>
                /\ t.val \notin {"gist", "gistEmpty"}
                /\ (ver = "ckan" /\ EndpointOf(tid) \in CkanBacked) =>
                      (t.pc = "waitCkan" \/ t.ckanSaw # "none")
                /\ (t.pc = "fulfilled" /\ t.ckanSaw = "none") =>
                      t.val = IF ver = "ckan" THEN emptySentinel(EndpointOf(tid))
                              ELSE orDefault(EndpointOf(tid))

-----------------------------------------------------------------------------
(* Retry loops *)

Succeeded(outcome) == outcome \in {"records", "data"}

\* The loop is bounded, waits only between attempts, and ends with the
\* first success or after the last attempt.
RetryBounded ==
    LET max == IF retry.fn = "fetchFromCKAN" THEN 4 ELSE 3
        n == Len(retry.outcomes)
    IN  retry.fn # "none" =>
            /\ retry.requests <= max
            /\ retry.phase = "request" =>
                  (n = retry.requests - 1 /\ Len(retry.sleeps) = retry.requests - 1)
            /\ retry.phase = "sleep" =>
                  (n = retry.requests /\ Len(retry.sleeps) = retry.requests
                   /\ retry.requests < max)
            /\ retry.phase \in {"returned", "threw"} =>
                  (n = retry.requests /\ Len(retry.sleeps) = retry.requests - 1)
            /\ \A k \in 1..n : Succeeded(retry.outcomes[k]) =>
                  (k = n /\ retry.phase = "returned")
            /\ retry.phase = "returned" => Succeeded(retry.outcomes[n])
            /\ retry.phase = "threw" => retry.requests = max

\* C29: fetchFromCKAN issues at most maxRetries + 1 = 4 requests per call
\* and the collector's fetchWithRetry at most 3; a delay is awaited only
\* between attempts, never after the last; the call returns the result of
\* the first successful attempt or fails after the last attempt; and it
\* always ends, provided each request settles.
C29_RetryBoundedAndTerminates ==
    /\ []RetryBounded
    /\ (retry.phase \in {"request", "sleep"}) ~> (retry.phase \in {"returned", "threw"})

\* fetchFromCKAN has thrown after four requests and three delays.
C29_Witness ==
    /\ retry.fn = "fetchFromCKAN"
    /\ retry.phase = "threw"
    /\ retry.requests = 4
    /\ Len(retry.sleeps) = 3

IsMarker(outcome) == outcome \in {"successFalse", "errorMessage"}

\* C30: a 2xx response whose body carries the error marker (success = false
\* for CKAN, the message 'An unexpected error occurred' for the collector)
\* is never returned as data, and it is followed by a delay and the next
\* attempt while attempts remain, exactly as a network error is.
C30_ErrorMarkerIsRetried ==
    LET n == Len(retry.outcomes)
        max == Attempts(retry.fn)
    IN  \A k \in 1..n :
            IsMarker(retry.outcomes[k]) =>
                /\ ~(k = n /\ retry.phase = "returned")
                /\ k < max =>
                      /\ Len(retry.sleeps) >= k
                      /\ retry.sleeps[k] \in
                            IF retry.fn = "fetchFromCKAN"
                            THEN {getBackoffDelay(k - 1, j) : j \in RetryJitter}
                            ELSE {2000 * k}
                      /\ (retry.requests > k \/ retry.phase = "sleep")
                /\ k = max => retry.phase = "threw"

\* fetchFromCKAN returned records after an attempt answered success = false.
C30_Witness ==
    /\ retry.fn = "fetchFromCKAN"
    /\ retry.phase = "returned"
    /\ Len(retry.outcomes) = 2
    /\ retry.outcomes[1] = "successFalse"
    /\ retry.outcomes[2] = "records"
    /\ Len(retry.sleeps) = 1

\* C31: a 4xx response is not retried - no further request of the same call
\* follows it and no delay is awaited - whereas a 5xx response is followed
\* by a delay and the next attempt while attempts remain, and by the
\* failure after the last attempt.
C31_ClientErrorsAreNotRetried ==
    LET n == Len(retry.outcomes)
        max == Attempts(retry.fn)
    IN  retry.fn = "fetchFromCKAN" =>
            \A k \in 1..n :
                /\ retry.outcomes[k] = "status4xx" =>
                      /\ retry.requests = k
                      /\ retry.phase = "threw"
                      /\ Len(retry.sleeps) = k - 1
                /\ retry.outcomes[k] = "status5xx" =>
                      /\ k < max => (retry.requests > k \/ retry.phase = "sleep")
                      /\ k = max => retry.phase = "threw"

\* The dates a ledger holds.
DatesOf(entries) == {entries[i].date : i \in 1..Len(entries)}

\* C32: the ledger holds at most 24 entries, newest first, one per date;
\* and a successful run leaves the entries of the 24 newest dates among
\* those it found and its own date: its own entry for its date (replacing
\* the one found for that date, if any), the entries found for the others.
C32_LedgerCappedNewestFirstOnePerDate ==
    LET E == historyFile.entries
        B == collector.atStart.entries
        dates == DatesOf(B) \cup {collector.today}
        kept == {d \in dates : Cardinality({x \in dates : x > d}) < 24}
    IN  /\ Len(E) <= 24
        /\ \A i \in 1..(Len(E) - 1) : E[i].date > E[i + 1].date
        /\ collector.phase = "done" =>
              /\ DatesOf(E) = kept
              /\ \A i \in 1..Len(E) :
                    IF E[i].date = collector.today
                    THEN E[i] = createEntry(collector.today, collector.stamp)
                    ELSE \E j \in 1..Len(B) : B[j] = E[i]

\* A run on a new date found 24 entries and dropped the oldest; the run
\* before it had replaced the entry of its date.
C32_Witness ==
    /\ collector.phase = "done"
    /\ Len(collector.atStart.entries) = 24
    /\ collector.today \notin DatesOf(collector.atStart.entries)
    /\ Len(historyFile.entries) = 24
    /\ \E i \in 1..24 : historyFile.entries[i].timestamp \notin {0, collector.stamp}

\* C38: a run whose dam status or daily production fetch failed after all
\* attempts ends failed with exit code 1 and history.json as it found it;
\* the file is written only by the step in which the second of the two
\* fetches has succeeded.
C38_FailedRunLeavesLedgerUnchanged ==
    /\ [](/\ collector.phase \in {"dam", "production", "failed"} =>
                historyFile = collector.atStart
          /\ collector.phase = "failed" => collector.exitCode = 1
          /\ (collector.runs > 0 /\ retry.phase = "threw") => collector.phase = "failed")
    /\ [][historyFile' # historyFile =>
              /\ collector.phase = "production"
              /\ collector'.phase = "done"
              /\ collector'.fetched = 2
              /\ retry'.phase = "returned"]_vars

\* The dam status was fetched, the production fetch failed three times,
\* and the ledger of 24 entries is as the run found it.
C38_Witness ==
    /\ collector.phase = "failed"
    /\ collector.fetched = 1
    /\ Len(retry.outcomes) = 3
    /\ Len(historyFile.entries) = 24
    /\ historyFile = collector.atStart

\* C33: every request the proxy worker issues to an upstream host is a GET,
\* whatever the method of the client's request.
C33_UpstreamRequestsAreGet ==
    last.op = "fetch" =>
        \A i \in 1..Len(last.response.upstream) : last.response.upstream[i].method = "GET"

C34_UsableCapacityDividedOnlyWhenPositive ==
    last.op = "render" =>
        /\ \A i \in 1..Len(last.fill.divisors) : last.fill.divisors[i] > 0
        /\ last.fill.fillPercentage.kind = "number"
        /\ last.fill.fillPct.kind = "number"

\* C36: for every rule and numeric value Tables.getValueClass,
\* MapView.getValueClass and MapView.evaluateWaterQuality over the single
\* analysis assign the same severity.
C36_ClassifiersAgree ==
    last.op = "classify" =>
        /\ Severity(last.table) = Severity(last.map)
        /\ Severity(last.quality) = Severity(last.map)

\* C37: clearOldEntries removes only expired dataset entries: the settings,
\* every preference stored under the prefix and every unexpired dataset
\* entry are present with the same value after it.
C37_CleanupRemovesOnlyExpiredEntries ==
    last.op = "clearOldEntries" =>
        \A k \in DOMAIN localStorage :
            \/ localStorage[k] = last.before[k]
            \/ /\ k \notin PreferenceKeys
               /\ k # SETTINGS_KEY
               /\ last.before[k].kind = "entry"
               /\ expired(now, timestampOf(last.before[k]), getTTL(last.before))

\* C39: fetchAll(false) called while each of its eight endpoints has a
\* valid cache entry returns the eight cached payloads with every error
\* null and issues no network request, in both versions of the module.
C39_AllCachedFetchAllIsLocal ==
    \A i \in Calls :
        (inv[i].status # "idle" /\ inv[i].allCached) =>
            /\ inv[i].status = "returned"
            /\ \A e \in FanOutSet :
                  /\ inv[i].result[e] = [data |-> task[i][e].cachedVal, error |-> NullV]
                  /\ task[i][e].cachedVal # NullV
                  /\ task[i][e].net = 0
            /\ inv[i].issued = 0

====
